---- MODULE Spec2Model ----
(***************************************************************************)
(* A model of pulse3D's peak/valley detection, twitch indexing and the     *)
(* per-well loop of the Excel writer.                                      *)
(*                                                                         *)
(* Python arrays are modelled as sequences read through At, which keeps    *)
(* the source's zero-based (and negative, from-the-end) indices.           *)
(***************************************************************************)
EXTENDS Integers, Sequences, FiniteSets, TLC

VARIABLES
    fti_peak_indices,    \* find_twitch_indices: peak_and_valley_indices[0]
    fti_valley_indices,  \* find_twitch_indices: peak_and_valley_indices[1]
    fti_pc,              \* "idle" | "call" | "done"
    fti_outcome,         \* what the call did: a return value or a raised error
    pd_signal,           \* peak_detector: filtered_magnetic_signal, <<time row, amplitude row>>
    pd_twitches_point_up,
    pd_start_time,       \* in microseconds (see peak_detector below)
    pd_end_time,
    pd_factors,          \* [prominence |-> prominence_factors, width |-> width_factors]
    pd_pc,               \* "idle" | "call" | "done"
    pd_found,            \* the extrema of the two find_peaks calls, before the repair loop
    pd_outcome,          \* what the call did
    xl_wells,            \* write_xlsx: plate_recording.wells, None where a well has no file
    xl_iter,             \* plate_recording._iter
    xl_start_time,       \* the start_time argument, in microseconds
    xl_end_time,         \* the end_time argument, in microseconds
    xl_stim_waveform_format,
    xl_peaks_valleys,    \* None, or the user's peaks and valleys of each well
    xl_pc,               \* "idle" | "call" | "loop" | "write" | "done" | "raised"
    xl_window_end,       \* end_time after line 274
    xl_metrics,          \* the local variable metrics
    xl_recording_plotting_info,
    xl_calls,            \* how often the detection and metric functions were called
    xl_output_file,      \* None, or the workbook written
    xl_outcome,          \* what the call did
    nb_waveform,         \* noise_based_peak_finding: tissue_data[1]
    nb_sample_freq,      \* 1 / (time_axis[1] - time_axis[0]), in Hz
    nb_params,           \* the keyword arguments
    nb_noise_amplitude,  \* noise_amplitude_from_data
    nb_pc,               \* "idle" | "call" | "done"
    nb_outcome,          \* what the call did
    vs_segment,          \* the valley search: a valley segment
    vs_upslope_num_samples,  \* upslope_duration * sample_freq, in hundredths
    vs_allowance,        \* upslope_noise_allowance_duration * sample_freq, in hundredths
    vs_pc,               \* "idle" | "call" | "done"
    vs_valley_index,     \* the position chosen in the segment
    fa_signal,           \* peak_detector's factor arguments: filtered_magnetic_signal
    fa_prominence_factors,   \* a number or a tuple
    fa_width_factors,    \* a number or a tuple
    fa_pc,               \* "idle" | "call" | "done"
    fa_find_peaks_calls, \* the width and prominence each call of signal.find_peaks got
    fa_outcome,          \* what the call returned or raised
    rp_magnetic_signal,  \* the valley repair loop: the raw signal
    rp_valley_indices,   \* the valleys signal.find_peaks gave
    rp_left_ips,         \* their left intersection points
    rp_right_ips,        \* their right intersection points
    rp_pc,               \* "idle" | "call" | "done"
    rp_repaired,         \* the three arrays after the loop
    wf_time_signal,      \* the window filter of peak_detector: the time row
    wf_peak_indices,     \* the peaks found on the full trace
    wf_valley_indices,   \* the valleys left by the repair loop
    wf_start_time,       \* start_time, in microseconds
    wf_end_time,         \* end_time, in microseconds
    wf_pc,               \* "idle" | "call" | "done"
    wf_windowed,         \* the (peaks, valleys) returned
    bl_baseline_data_mt, \* _process_plate_data: the baseline, a row of timepoints per (well, sensor, axis)
    bl_num_samples_in_recording, \* plate_data_array_mt.shape[-1]
    bl_use_mean_of_baseline,
    bl_mean_num_data_points, \* BASELINE_MEAN_NUM_DATA_POINTS
    bl_pc,               \* "idle" | "call" | "done"
    bl_passed,           \* the baseline given to find_magnet_positions
    st_version,          \* WellFile.version, as <<major, minor, patch>>
    st_is_magnetic_data, \* True for an .h5 file, False for an optical .xlsx file
    st_readings,         \* the stored TISSUE_SENSOR_READINGS and REFERENCE_SENSOR_READINGS
    st_raw_magnetic_data, \* raw_tissue_magnetic_data and raw_reference_magnetic_data
    st_X,                \* estimated_magnet_positions["X"], by timepoint and well
    st_well_idx,         \* the loop of _process_plate_data over the wells
    st_displacement,     \* row 1 of each WellFile.displacement
    st_pc,               \* "idle" | "load" | "estimate" | "wells" | "done"
    sh_well_indices,     \* _write_xlsx: the well_index of each entry of recording_plotting_info
    sh_twitch_widths,
    sh_baseline_widths_to_use,
    sh_pc,               \* "idle" | "aggregate" | "per_twitch" | "charts" | "done"
    sh_aggregate,        \* the metrics of the aggregate-metrics sheet, in order
    sh_per_twitch,       \* the rows of the per-twitch-metrics sheet and num_metrics
    sh_charts,           \* the rows the charts of each well refer to
    sl_first_time,       \* write_xlsx: well_file.force[0][0], in microseconds
    sl_last_time,        \* well_file.force[0][-1]
    sl_max_final_time,   \* max_final_time_us, over the wells of the recording
    sl_start_time,       \* start_time, in microseconds
    sl_end_time,         \* end_time after line 274, in microseconds
    sl_pc,               \* "idle" | "call" | "done"
    sl_windowed,         \* windowed_timepoints_us
    it_wells,            \* PlateRecording.wells, None where a well has no file
    it_iter,             \* PlateRecording._iter, shared by every loop over the object
    it_loops,            \* for each of two for loops over the object: where it is and what it was given
    fs_old_data,         \* _find_start_index: the times
    fs_from_start,
    fs_pc,               \* "idle" | "call" | "done"
    fs_start_index       \* the index returned

fti_vars == <<fti_peak_indices, fti_valley_indices, fti_pc, fti_outcome>>

pd_vars == <<pd_signal, pd_twitches_point_up, pd_start_time, pd_end_time, pd_factors,
             pd_pc, pd_found, pd_outcome>>

xl_vars == <<xl_wells, xl_iter, xl_start_time, xl_end_time, xl_stim_waveform_format, xl_peaks_valleys, xl_pc,
             xl_window_end, xl_metrics, xl_recording_plotting_info, xl_calls,
             xl_output_file, xl_outcome>>

nb_vars == <<nb_waveform, nb_sample_freq, nb_params, nb_noise_amplitude, nb_pc, nb_outcome>>

vs_vars == <<vs_segment, vs_upslope_num_samples, vs_allowance, vs_pc, vs_valley_index>>

fa_vars == <<fa_signal, fa_prominence_factors, fa_width_factors, fa_pc, fa_find_peaks_calls, fa_outcome>>

rp_vars == <<rp_magnetic_signal, rp_valley_indices, rp_left_ips, rp_right_ips, rp_pc, rp_repaired>>

wf_vars == <<wf_time_signal, wf_peak_indices, wf_valley_indices, wf_start_time, wf_end_time, wf_pc, wf_windowed>>

bl_vars == <<bl_baseline_data_mt, bl_num_samples_in_recording, bl_use_mean_of_baseline, bl_mean_num_data_points, bl_pc, bl_passed>>

st_vars == <<st_version, st_is_magnetic_data, st_readings, st_raw_magnetic_data, st_X, st_well_idx, st_displacement, st_pc>>

sh_vars == <<sh_well_indices, sh_twitch_widths, sh_baseline_widths_to_use, sh_pc, sh_aggregate, sh_per_twitch, sh_charts>>

sl_vars == <<sl_first_time, sl_last_time, sl_max_final_time, sl_start_time, sl_end_time, sl_pc, sl_windowed>>

it_vars == <<it_wells, it_iter, it_loops>>

fs_vars == <<fs_old_data, fs_from_start, fs_pc, fs_start_index>>

vars == <<fti_vars, pd_vars, xl_vars, nb_vars, vs_vars, fa_vars, rp_vars, wf_vars, bl_vars, st_vars, sh_vars, sl_vars, it_vars, fs_vars>>

----------------------------------------------------------------------------
(* Bounds of the model *)

\* find_twitch_indices is given indices out of 0..MaxIndex
MaxIndex == 6

\* peak_detector is given waveforms of SignalLength samples
SignalLength == 5

\* write_xlsx is given plate recordings of up to MaxWells wells
MaxWells == 2

\* noise_based_peak_finding is given waveforms of WaveformLength samples
WaveformLength == 8

\* the valley search is given segments of up to SegmentLength samples
SegmentLength == 5
MaxValleys == 4
MaxArrayLength == 4
NumChannels == 2
MaxBaselineSamples == 3
MaxRecordingSamples == 4
NumTimepoints == 2
NumPlateWells == 2
MaxTwitchWidths == 2

----------------------------------------------------------------------------
(* Python values *)

\* Python's None, and a present optional value
None == <<>>
Some(x) == <<x>>

\* a[i] of a Python sequence: zero-based, negative i counts from the end
At(a, i) == IF i >= 0 THEN a[i + 1] ELSE a[Len(a) + i + 1]

Max2(a, b) == IF a >= b THEN a ELSE b
Min2(a, b) == IF a <= b THEN a ELSE b

SetMin(S) == CHOOSE x \in S : \A y \in S : x <= y
SetMax(S) == CHOOSE x \in S : \A y \in S : x >= y

\* the elements of a finite set of integers, in increasing order
RECURSIVE SortedSeq(_)
SortedSeq(S) == IF S = {} THEN <<>> ELSE <<SetMin(S)>> \o SortedSeq(S \ {SetMin(S)})

SeqToSet(s) == {s[k] : k \in 1..Len(s)}

\* d[key] = value of a Python dict kept as a sequence of entries in insertion
\* order: an existing key keeps its place and takes the new value
DictSet(d, key, value) ==
    IF \E k \in 1..Len(d) : d[k].key = key
    THEN [k \in 1..Len(d) |-> IF d[k].key = key THEN [key |-> key, value |-> value] ELSE d[k]]
    ELSE Append(d, [key |-> key, value |-> value])

DictKeys(d) == [k \in 1..Len(d) |-> d[k].key]

----------------------------------------------------------------------------
(* constants.py *)

MIN_NUMBER_PEAKS == 3
MIN_NUMBER_VALLEYS == 3

----------------------------------------------------------------------------
(* peak_detection.py: too_few_peaks_or_valleys, find_twitch_indices *)

NoMessage == [what |-> "", minimum |-> 0, found |-> 0]

\* a call's outcome: a returned value, or the exception it raised
Returned(value) == [kind |-> "return", value |-> value, pair |-> <<>>, message |-> NoMessage]
Raised(kind, pair, message) == [kind |-> kind, value |-> <<>>, pair |-> pair, message |-> message]

\* "A minimum of {minimum} {what} is required to extract twitch metrics,
\*  however only {found} {what}(s) were detected."
TooFewMessage(what, minimum, found) == [what |-> what, minimum |-> minimum, found |-> found]

\* mutant: the bounds compared with <= instead of <
too_few_inclusive(peak_indices, valley_indices) ==
    IF Len(peak_indices) <= MIN_NUMBER_PEAKS
    THEN Raised("TooFewPeaksDetectedError", <<>>,
                TooFewMessage("peaks", MIN_NUMBER_PEAKS, Len(peak_indices)))
    ELSE IF Len(valley_indices) <= MIN_NUMBER_VALLEYS
    THEN Raised("TooFewPeaksDetectedError", <<>>,
                TooFewMessage("valleys", MIN_NUMBER_VALLEYS, Len(valley_indices)))
    ELSE Returned(None)

too_few_peaks_or_valleys(peak_indices, valley_indices) ==
    IF Len(peak_indices) < MIN_NUMBER_PEAKS
    THEN Raised("TooFewPeaksDetectedError", <<>>,
                TooFewMessage("peaks", MIN_NUMBER_PEAKS, Len(peak_indices)))
    ELSE IF Len(valley_indices) < MIN_NUMBER_VALLEYS
    THEN Raised("TooFewPeaksDetectedError", <<>>,
                TooFewMessage("valleys", MIN_NUMBER_VALLEYS, Len(valley_indices)))
    ELSE Returned(None)

\* mutant: the start indices of the other kind
_find_start_indices_swapped(starts_with_peak) ==
    IF starts_with_peak THEN <<0, 1>> ELSE <<1, 0>>

\* (peak_idx, valley_idx) the alternation scan starts from
_find_start_indices(starts_with_peak) ==
    IF starts_with_peak THEN <<1, 0>> ELSE <<0, 1>>

\* mutant: the scan without its two-valleys check
RECURSIVE AlternationScan_no_valley_check(_, _, _, _, _)
AlternationScan_no_valley_check(peak_indices, valley_indices, peak_idx, valley_idx, prev_feature_is_peak) ==
    IF peak_idx < Len(peak_indices) /\ valley_idx < Len(valley_indices)
    THEN IF prev_feature_is_peak
         THEN IF At(valley_indices, valley_idx) > At(peak_indices, peak_idx)
              THEN Raised("TwoPeaksInARowError",
                          <<At(peak_indices, peak_idx - 1), At(peak_indices, peak_idx)>>, NoMessage)
              ELSE AlternationScan_no_valley_check(peak_indices, valley_indices, peak_idx,
                                                   valley_idx + 1, ~prev_feature_is_peak)
         ELSE AlternationScan_no_valley_check(peak_indices, valley_indices, peak_idx + 1,
                                              valley_idx, ~prev_feature_is_peak)
    ELSE Returned(<<peak_idx, valley_idx>>)

\* the while loop "check for two back-to-back features": the error it raises,
\* or the (peak_idx, valley_idx) it ends with
RECURSIVE AlternationScan(_, _, _, _, _)
AlternationScan(peak_indices, valley_indices, peak_idx, valley_idx, prev_feature_is_peak) ==
    IF peak_idx < Len(peak_indices) /\ valley_idx < Len(valley_indices)
    THEN IF prev_feature_is_peak
         THEN IF At(valley_indices, valley_idx) > At(peak_indices, peak_idx)
              THEN Raised("TwoPeaksInARowError",
                          <<At(peak_indices, peak_idx - 1), At(peak_indices, peak_idx)>>, NoMessage)
              ELSE AlternationScan(peak_indices, valley_indices, peak_idx, valley_idx + 1,
                                   ~prev_feature_is_peak)
         ELSE IF At(valley_indices, valley_idx) < At(peak_indices, peak_idx)
              THEN Raised("TwoValleysInARowError",
                          <<At(valley_indices, valley_idx - 1), At(valley_indices, valley_idx)>>, NoMessage)
              ELSE AlternationScan(peak_indices, valley_indices, peak_idx + 1, valley_idx,
                                   ~prev_feature_is_peak)
    ELSE Returned(<<peak_idx, valley_idx>>)

\* mutant: the trailing checks name the pair one place too early
TrailingCheck_off_by_one(peak_indices, valley_indices, peak_idx, valley_idx) ==
    IF peak_idx < Len(peak_indices) - 1
    THEN Raised("TwoPeaksInARowError",
                <<At(peak_indices, peak_idx - 1), At(peak_indices, peak_idx)>>, NoMessage)
    ELSE IF valley_idx < Len(valley_indices) - 1
    THEN Raised("TwoValleysInARowError",
                <<At(valley_indices, valley_idx - 1), At(valley_indices, valley_idx)>>, NoMessage)
    ELSE Returned(None)

\* mutant: the checks after the loop without the one of the valleys
TrailingCheck_peaks_only(peak_indices, valley_indices, peak_idx, valley_idx) ==
    IF peak_idx < Len(peak_indices) - 1
    THEN Raised("TwoPeaksInARowError",
                <<At(peak_indices, peak_idx), At(peak_indices, peak_idx + 1)>>, NoMessage)
    ELSE Returned(None)

\* the two checks that follow the loop
TrailingCheck(peak_indices, valley_indices, peak_idx, valley_idx) ==
    IF peak_idx < Len(peak_indices) - 1
    THEN Raised("TwoPeaksInARowError",
                <<At(peak_indices, peak_idx), At(peak_indices, peak_idx + 1)>>, NoMessage)
    ELSE IF valley_idx < Len(valley_indices) - 1
    THEN Raised("TwoValleysInARowError",
                <<At(valley_indices, valley_idx), At(valley_indices, valley_idx + 1)>>, NoMessage)
    ELSE Returned(None)

\* mutant: the prior valley read at itr_idx whichever kind comes first
TwitchInfo_prior_valley_at_itr_idx(peak_indices, valley_indices, itr_idx, starts_with_peak) ==
    [prior_peak       |-> IF itr_idx = 0 THEN None ELSE Some(At(peak_indices, itr_idx - 1)),
     prior_valley     |-> Some(At(valley_indices, itr_idx)),
     subsequent_peak  |-> Some(At(peak_indices, itr_idx + 1)),
     subsequent_valley |-> Some(At(valley_indices, IF starts_with_peak THEN itr_idx ELSE itr_idx + 1))]

\* the record of one twitch
TwitchInfo(peak_indices, valley_indices, itr_idx, starts_with_peak) ==
    [prior_peak       |-> IF itr_idx = 0 THEN None ELSE Some(At(peak_indices, itr_idx - 1)),
     prior_valley     |-> Some(At(valley_indices, IF starts_with_peak THEN itr_idx - 1 ELSE itr_idx)),
     subsequent_peak  |-> Some(At(peak_indices, itr_idx + 1)),
     subsequent_valley |-> Some(At(valley_indices, IF starts_with_peak THEN itr_idx ELSE itr_idx + 1))]

\* mutant: a leading peak is not skipped
RECURSIVE CompileTwitches_keeps_first(_, _, _, _, _)
CompileTwitches_keeps_first(peak_indices, valley_indices, starts_with_peak, itr_idx, twitches) ==
    IF itr_idx >= Len(peak_indices) THEN twitches
    ELSE IF itr_idx < Len(peak_indices) - 1
    THEN CompileTwitches_keeps_first(peak_indices, valley_indices, starts_with_peak, itr_idx + 1,
             DictSet(twitches, At(peak_indices, itr_idx),
                     TwitchInfo(peak_indices, valley_indices, itr_idx, starts_with_peak)))
    ELSE CompileTwitches_keeps_first(peak_indices, valley_indices, starts_with_peak, itr_idx + 1,
                                     twitches)

\* "compile dict of twitch information": the loop over enumerate(peak_indices)
RECURSIVE CompileTwitches(_, _, _, _, _)
CompileTwitches(peak_indices, valley_indices, starts_with_peak, itr_idx, twitches) ==
    IF itr_idx >= Len(peak_indices) THEN twitches
    ELSE IF itr_idx < Len(peak_indices) - 1 /\ ~(itr_idx = 0 /\ starts_with_peak)
    THEN CompileTwitches(peak_indices, valley_indices, starts_with_peak, itr_idx + 1,
             DictSet(twitches, At(peak_indices, itr_idx),
                     TwitchInfo(peak_indices, valley_indices, itr_idx, starts_with_peak)))
    ELSE CompileTwitches(peak_indices, valley_indices, starts_with_peak, itr_idx + 1, twitches)

\* the subscripts of valley_indices in the loop over enumerate(peak_indices)
\* are at most len(valley_indices) - 1; none is below -len(valley_indices)
ValleySubscriptsInRange(peak_indices, valley_indices, starts_with_peak) ==
    \A itr_idx \in 0..(Len(peak_indices) - 2) :
        ~(itr_idx = 0 /\ starts_with_peak)
        => (IF starts_with_peak THEN itr_idx ELSE itr_idx + 1) < Len(valley_indices)

\* the loop over enumerate(peak_indices) and the return: a subscript out of
\* range is Python's IndexError
CompileChecked(peak_indices, valley_indices, starts_with_peak) ==
    IF ValleySubscriptsInRange(peak_indices, valley_indices, starts_with_peak)
    THEN Returned(CompileTwitches(peak_indices, valley_indices, starts_with_peak, 0, <<>>))
    ELSE Raised("IndexError", <<>>, NoMessage)

find_twitch_indices(peak_and_valley_indices) ==
    LET peak_indices == peak_and_valley_indices[1]
        valley_indices == peak_and_valley_indices[2]
        few == too_few_peaks_or_valleys(peak_indices, valley_indices)
    IN  IF few.kind # "return" THEN few
        ELSE
        LET starts_with_peak == At(peak_indices, 0) < At(valley_indices, 0)
            start == _find_start_indices(starts_with_peak)
            scan == AlternationScan(peak_indices, valley_indices, start[1], start[2], starts_with_peak)
        IN  IF scan.kind # "return" THEN scan
            ELSE
            LET trailing == TrailingCheck(peak_indices, valley_indices, scan.value[1], scan.value[2])
            IN  IF trailing.kind # "return" THEN trailing
                ELSE CompileChecked(peak_indices, valley_indices, starts_with_peak)

----------------------------------------------------------------------------
(* Exact arithmetic for the interpolated positions (scipy computes them as  *)
(* floats): a rational is a record [n, d] with d > 0                        *)

Rat(n, d) == [n |-> n, d |-> d]
RatEq(a, b) == a.n * b.d = b.n * a.d
RatSub(a, b) == Rat(a.n * b.d - b.n * a.d, a.d * b.d)

\* round(n / d) for n >= 0, d > 0, a tie going to the even neighbour as Python's round does
RoundHalfEven(n, d) ==
    LET q == n \div d
        r == n % d
    IN  IF 2 * r < d THEN q
        ELSE IF 2 * r > d THEN q + 1
        ELSE IF q % 2 = 0 THEN q ELSE q + 1

\* np.delete(a, i)
Delete(a, i) == [k \in 1..(Len(a) - 1) |-> IF k <= i THEN a[k] ELSE a[k + 1]]

\* a * factor, elementwise
Scale(a, factor) == [k \in 1..Len(a) |-> a[k] * factor]

\* a[positions], the elements of a at a strictly increasing list of positions
Take(a, positions) == [k \in 1..Len(positions) |-> At(a, positions[k])]

----------------------------------------------------------------------------
(* scipy.signal.find_peaks(x, width=, distance=, prominence=), as called by *)
(* peak_detector: local maxima, then the distance, prominence and width     *)
(* conditions in that order                                                 *)

\* the first index from i_ahead on that ends the plateau of value v
RECURSIVE PlateauEnd(_, _, _)
PlateauEnd(x, i_ahead, v) ==
    IF i_ahead < Len(x) - 1 /\ At(x, i_ahead) = v THEN PlateauEnd(x, i_ahead + 1, v) ELSE i_ahead

\* _local_maxima_1d: the midpoints of the local maxima, a plateau counting as one
RECURSIVE LocalMaxima(_, _)
LocalMaxima(x, i) ==
    IF i >= Len(x) - 1 THEN <<>>
    ELSE IF At(x, i - 1) < At(x, i)
    THEN LET i_ahead == PlateauEnd(x, i + 1, At(x, i))
         IN  IF At(x, i_ahead) < At(x, i)
             THEN <<(i + i_ahead - 1) \div 2>> \o LocalMaxima(x, i_ahead + 1)
             ELSE LocalMaxima(x, i + 1)
    ELSE LocalMaxima(x, i + 1)

\* the positions of peaks from the highest priority down (np.argsort read
\* backwards: among equal heights the later peak first)
RECURSIVE PriorityOrder(_, _, _)
PriorityOrder(x, peaks, left) ==
    IF left = {} THEN <<>>
    ELSE LET j == CHOOSE j \in left : \A k \in left :
                      \/ At(x, peaks[j]) > At(x, peaks[k])
                      \/ (At(x, peaks[j]) = At(x, peaks[k]) /\ j >= k)
         IN  <<j>> \o PriorityOrder(x, peaks, left \ {j})

\* _select_by_peak_distance: the positions kept
RECURSIVE SelectByPeakDistance(_, _, _, _)
SelectByPeakDistance(peaks, order, distance, keep) ==
    IF order = <<>> THEN keep
    ELSE LET j == Head(order)
         IN  IF j \notin keep
             THEN SelectByPeakDistance(peaks, Tail(order), distance, keep)
             ELSE SelectByPeakDistance(peaks, Tail(order), distance,
                      {k \in keep : k = j \/ ~(-distance < peaks[k] - peaks[j]
                                                /\ peaks[k] - peaks[j] < distance)})

\* the elements of s at the positions in keep
KeepPositions(s, keep) == SelectSeq([k \in 1..Len(s) |-> <<k, s[k]>>], LAMBDA e : e[1] \in keep)

Values(pairs) == [k \in 1..Len(pairs) |-> pairs[k][2]]

\* _peak_prominences (wlen=None): the lowest sample on one side of the peak, up
\* to the first sample higher than the peak; step is -1 (left) or 1 (right)
RECURSIVE BaseScan(_, _, _, _, _, _)
BaseScan(x, peak, step, i, lowest, base) ==
    IF 0 <= i /\ i <= Len(x) - 1 /\ At(x, i) <= At(x, peak)
    THEN IF At(x, i) < lowest
         THEN BaseScan(x, peak, step, i + step, At(x, i), i)
         ELSE BaseScan(x, peak, step, i + step, lowest, base)
    ELSE [lowest |-> lowest, base |-> base]

PeakProminence(x, peak) ==
    LET left == BaseScan(x, peak, -1, peak, At(x, peak), peak)
        right == BaseScan(x, peak, 1, peak, At(x, peak), peak)
    IN  [prominence |-> At(x, peak) - Max2(left.lowest, right.lowest),
         left_base |-> left.base,
         right_base |-> right.base]

\* _peak_widths (rel_height=0.5): walk from the peak towards a base while the
\* signal is above the evaluation height; height2 is twice that height
RECURSIVE CrossingWalk(_, _, _, _, _)
CrossingWalk(x, step, limit, i, height2) ==
    IF i # limit /\ height2 < 2 * At(x, i)
    THEN CrossingWalk(x, step, limit, i + step, height2)
    ELSE i

\* the interpolated position where the signal crosses the evaluation height
\* between sample i and its neighbour towards the peak (toward is 1 or -1)
Crossing(x, i, toward, height2) ==
    IF 2 * At(x, i) < height2
    THEN Rat(i * 2 * (At(x, i + toward) - At(x, i)) + toward * (height2 - 2 * At(x, i)),
             2 * (At(x, i + toward) - At(x, i)))
    ELSE Rat(i, 1)

WidthBetween(left_ip, right_ip) ==
    [width |-> RatSub(right_ip, left_ip), left_ips |-> left_ip, right_ips |-> right_ip]

WidthAtHeight(x, peak, left_base, right_base, height2) ==
    WidthBetween(Crossing(x, CrossingWalk(x, -1, left_base, peak, height2), 1, height2),
                 Crossing(x, CrossingWalk(x, 1, right_base, peak, height2), -1, height2))

WidthOfProminence(x, peak, p) ==
    WidthAtHeight(x, peak, p.left_base, p.right_base, 2 * At(x, peak) - p.prominence)

PeakWidth(x, peak) == WidthOfProminence(x, peak, PeakProminence(x, peak))

\* the distance condition
Spaced(x, distance, maxima) ==
    Values(KeepPositions(maxima,
               SelectByPeakDistance(maxima, PriorityOrder(x, maxima, 1..Len(maxima)),
                                    distance, 1..Len(maxima))))

\* the prominence condition; prominence is the rational the caller divides out
Prominent(x, prominence, peaks) ==
    SelectSeq(peaks, LAMBDA pk : prominence.n <= PeakProminence(x, pk).prominence * prominence.d)

WidthSuffices(width, w) == width.n * w.d <= w.n * width.d

\* the width condition; width is the rational the caller divides out
WideEnough(x, width, peaks) ==
    SelectSeq(peaks, LAMBDA pk : WidthSuffices(width, PeakWidth(x, pk).width))

\* the peaks and the properties peak_detector reads
PeakProperties(x, peaks) ==
    [indices |-> peaks,
     left_ips |-> [k \in 1..Len(peaks) |-> PeakWidth(x, peaks[k]).left_ips],
     right_ips |-> [k \in 1..Len(peaks) |-> PeakWidth(x, peaks[k]).right_ips]]

find_peaks(x, width, distance, prominence) ==
    PeakProperties(x, WideEnough(x, width,
                          Prominent(x, prominence, Spaced(x, distance, LocalMaxima(x, 1)))))

----------------------------------------------------------------------------
(* peak_detection.py: peak_detector.  Times are kept in microseconds: the   *)
(* start_time and end_time of the source, in seconds, are these values      *)
(* divided by MICRO_TO_BASE_CONVERSION.                                     *)

MICRO_TO_BASE_CONVERSION == 1000000

\* np.inf
Inf == 2000000000

max_possible_twitch_freq == 7

\* mutant: the factors of twitches that point up, whatever the flag
InvertorFactors_always_up(twitches_point_up) == <<1, -1>>

\* (peak_invertor_factor, valley_invertor_factor)
InvertorFactors(twitches_point_up) == IF twitches_point_up THEN <<1, -1>> ELSE <<-1, 1>>

min_required_samples_between_twitches(time_signal) ==
    RoundHalfEven(MICRO_TO_BASE_CONVERSION,
                  max_possible_twitch_freq * (At(time_signal, 1) - At(time_signal, 0)))

\* abs(max_height - min_height)
MaxProminence(magnetic_signal) ==
    SetMax(SeqToSet(magnetic_signal)) - SetMin(SeqToSet(magnetic_signal))

\* what peak_detector keeps of the two results of signal.find_peaks
Extrema(peaks, valleys) ==
    [peak_indices |-> peaks.indices,
     valley_indices |-> valleys.indices,
     left_ips |-> valleys.left_ips,
     right_ips |-> valleys.right_ips]

\* the two calls of signal.find_peaks, lines 79-91
FindPeaksAndValleys(magnetic_signal, factors, samples, max_prominence, prominence_factors, width_factors) ==
    Extrema(find_peaks(Scale(magnetic_signal, factors[1]),
                       Rat(samples, At(width_factors, 0)), samples,
                       Rat(max_prominence, At(prominence_factors, 0))),
            find_peaks(Scale(magnetic_signal, factors[2]),
                       Rat(samples, At(width_factors, 1)), samples,
                       Rat(max_prominence, At(prominence_factors, 1))))

\* lines 62-94
FindExtrema(filtered_magnetic_signal, twitches_point_up, prominence_factors, width_factors) ==
    FindPeaksAndValleys(filtered_magnetic_signal[2],
                        InvertorFactors(twitches_point_up),
                        min_required_samples_between_twitches(filtered_magnetic_signal[1]),
                        MaxProminence(filtered_magnetic_signal[2]),
                        prominence_factors, width_factors)

\* mutant of RepairValleys: of two valleys of one shape the later is kept
RECURSIVE RepairValleys_keeps_later(_, _, _, _, _)
RepairValleys_keeps_later(magnetic_signal, valley_indices, left_ips, right_ips, i) ==
    IF i < Len(valley_indices)
    THEN IF RatEq(At(left_ips, i), At(left_ips, i - 1)) /\ RatEq(At(right_ips, i), At(right_ips, i - 1))
         THEN RepairValleys_keeps_later(magnetic_signal, Delete(valley_indices, i - 1),
                                        Delete(left_ips, i - 1), Delete(right_ips, i - 1), i)
         ELSE RepairValleys_keeps_later(magnetic_signal, valley_indices, left_ips, right_ips, i + 1)
    ELSE [valley_indices |-> valley_indices, left_ips |-> left_ips, right_ips |-> right_ips]

\* the while loop that drops one of two valleys found in a single valley
RECURSIVE RepairValleys(_, _, _, _, _)
RepairValleys(magnetic_signal, valley_indices, left_ips, right_ips, i) ==
    IF i < Len(valley_indices)
    THEN IF RatEq(At(left_ips, i), At(left_ips, i - 1)) /\ RatEq(At(right_ips, i), At(right_ips, i - 1))
         THEN LET valley_idx == At(valley_indices, i)
                  valley_idx_last == At(valley_indices, i - 1)
              IN  IF At(magnetic_signal, valley_idx_last) >= At(magnetic_signal, valley_idx)
                  THEN RepairValleys(magnetic_signal, Delete(valley_indices, i),
                                     Delete(left_ips, i), Delete(right_ips, i), i)
                  ELSE RepairValleys(magnetic_signal, Delete(valley_indices, i - 1),
                                     Delete(left_ips, i - 1), Delete(right_ips, i - 1), i)
         ELSE RepairValleys(magnetic_signal, valley_indices, left_ips, right_ips, i + 1)
    ELSE [valley_indices |-> valley_indices, left_ips |-> left_ips, right_ips |-> right_ips]

\* lines 53-60: the window the filter uses
EffectiveWindow(time_signal, start_time, end_time) ==
    LET max_time == At(time_signal, -1)
        start == Max2(0, start_time)
        end == Min2(end_time, max_time)
    IN  [start_time |-> start, end_time |-> IF end <= start THEN Inf ELSE end]

\* mutant: the filter runs only when both bounds ask for it
WindowRequested_both(time_signal, window) ==
    /\ window.start_time > 0
    /\ (window.end_time # Inf
        /\ window.end_time \div MICRO_TO_BASE_CONVERSION < At(time_signal, -1))

\* line 118, "start_time > 0 or end_time < max_time": end_time is in seconds
\* and max_time in microseconds there
WindowRequested(time_signal, window) ==
    \/ window.start_time > 0
    \/ (window.end_time # Inf
        /\ window.end_time \div MICRO_TO_BASE_CONVERSION < At(time_signal, -1))

\* mutant: the indices whose time lies at or outside the bounds
WindowFilter_outside(time_signal, indices, window) ==
    SelectSeq(indices, LAMBDA idx : \/ At(time_signal, idx) <= window.start_time
                                    \/ At(time_signal, idx) >= window.end_time)

\* the indices whose time lies in the window
WindowFilter(time_signal, indices, window) ==
    SelectSeq(indices, LAMBDA idx : /\ At(time_signal, idx) >= window.start_time
                                    /\ At(time_signal, idx) <= window.end_time)

\* lines 117-127, for the window of lines 53-60
ApplyEffectiveWindow(time_signal, peak_indices, valley_indices, window) ==
    IF WindowRequested(time_signal, window)
    THEN <<WindowFilter(time_signal, peak_indices, window),
           WindowFilter(time_signal, valley_indices, window)>>
    ELSE <<peak_indices, valley_indices>>

ApplyWindow(time_signal, peak_indices, valley_indices, start_time, end_time) ==
    ApplyEffectiveWindow(time_signal, peak_indices, valley_indices,
                         EffectiveWindow(time_signal, start_time, end_time))

\* lines 100-129, after the two calls of signal.find_peaks
RepairAndWindow(filtered_magnetic_signal, found, start_time, end_time) ==
    ApplyWindow(filtered_magnetic_signal[1], found.peak_indices,
                RepairValleys(filtered_magnetic_signal[2], found.valley_indices,
                              found.left_ips, found.right_ips, 1).valley_indices,
                start_time, end_time)

peak_detector(filtered_magnetic_signal, twitches_point_up, start_time, end_time, prominence_factors, width_factors) ==
    RepairAndWindow(filtered_magnetic_signal,
                    FindExtrema(filtered_magnetic_signal, twitches_point_up,
                                prominence_factors, width_factors),
                    start_time, end_time)

----------------------------------------------------------------------------
(* plate_recording.py: PlateRecording.__iter__ and __next__ *)

\* __next__: the next non-empty well from _iter on and the _iter it leaves,
\* or StopIteration
PlateNext(wells, iter) ==
    LET rest == {k \in iter..(Len(wells) - 1) : At(wells, k) # None}
    IN  IF rest = {}
        THEN [stop |-> TRUE, value |-> None, iter |-> Max2(iter, Len(wells))]
        ELSE [stop |-> FALSE, value |-> At(wells, SetMin(rest)), iter |-> SetMin(rest) + 1]

\* [w for w in plate_recording if w]
NonEmptyWells(wells) == SelectSeq(wells, LAMBDA w : w # None)

----------------------------------------------------------------------------
(* excel_writer.py: write_xlsx.  Times are in microseconds, as for          *)
(* peak_detector.                                                           *)

\* utils.truncate_float(value / MICRO_TO_BASE_CONVERSION, 1), for value >= 0
TruncatedToTenths(value) == (value \div 100000) * 100000

\* the frames of init_dfs: metrics of no well, with no twitch
EmptyMetrics == [of_well |-> None, twitch_indices |-> <<>>]

\* data_metrics: the frames hold one row per twitch of the well's data
data_metrics(peaks_and_valleys, well_index) ==
    LET twitch_indices == find_twitch_indices(peaks_and_valleys)
    IN  IF twitch_indices.kind # "return" THEN twitch_indices
        ELSE Returned([of_well |-> Some(well_index),
                       twitch_indices |-> DictKeys(twitch_indices.value)])

\* lines 237-239 and 265-272: the ValueError raised for the arguments, if any
ArgumentError(stim_waveform_format, start_time, end_time, raw_timepoints) ==
    LET min_final_time_secs == TruncatedToTenths(SetMin(SeqToSet(raw_timepoints)))
    IN  IF stim_waveform_format # "None" /\ stim_waveform_format \notin {"stacked", "overlayed"}
        THEN Some("Invalid stim_waveform_format")
        ELSE IF start_time < 0
        THEN Some("Window start time cannot be negative")
        ELSE IF start_time >= min_final_time_secs
        THEN Some("Window start time greater than the max timepoint of this recording")
        ELSE IF end_time <= start_time
        THEN Some("Window end time must be greater than window start time")
        ELSE None

\* mutant: metrics keeps what the well before left in it
InitialMetrics_left_over(previous_metrics) == previous_metrics

\* lines 345-348: metrics at the top of an iteration of the loop over wells
InitialMetrics(previous_metrics) == EmptyMetrics

\* lines 416-421
ErrorMessage(kind) ==
    IF kind = "TwoPeaksInARowError" THEN Some("Error: Two Contractions in a Row Detected")
    ELSE IF kind = "TwoValleysInARowError" THEN Some("Error: Two Relaxations in a Row Detected")
    ELSE IF kind = "TooFewPeaksDetectedError" THEN Some("Not Enough Twitches Detected")
    ELSE None

PeakDetectionErrors == {"TwoPeaksInARowError", "TwoValleysInARowError", "TooFewPeaksDetectedError"}

INTERPOLATED_DATA_PERIOD_US == 10000

\* np.arange(interpolated_data_period_us, max_final_time_us, interpolated_data_period_us)
interpolated_timepoints_us(max_final_time_us) ==
    [k \in 1..((max_final_time_us - 1) \div INTERPOLATED_DATA_PERIOD_US) |->
        k * INTERPOLATED_DATA_PERIOD_US]

\* utils.truncate: the two while loops
RECURSIVE TruncateLast(_, _, _)
TruncateLast(source_series, upper_bound, last_idx) ==
    IF upper_bound < At(source_series, last_idx)
    THEN TruncateLast(source_series, upper_bound, last_idx - 1)
    ELSE last_idx

RECURSIVE TruncateFirst(_, _, _)
TruncateFirst(source_series, lower_bound, first_idx) ==
    IF lower_bound > At(source_series, first_idx)
    THEN TruncateFirst(source_series, lower_bound, first_idx + 1)
    ELSE first_idx

truncate(source_series, lower_bound, upper_bound) ==
    <<TruncateFirst(source_series, lower_bound, 0),
      TruncateLast(source_series, upper_bound, Len(source_series) - 1)>>

\* get_windowed_peaks_valleys is imported from peak_detection.py (line 24 of
\* excel_writer.py), which does not define it: the indices within the window
get_windowed_peaks_valleys(window_start_idx, window_end_idx, peaks, valleys) ==
    <<SelectSeq(peaks, LAMBDA idx : window_start_idx <= idx /\ idx <= window_end_idx),
      SelectSeq(valleys, LAMBDA idx : window_start_idx <= idx /\ idx <= window_end_idx)>>

\* mutant of PeaksAndValleys: the detector's result is used whatever the user gives
PeaksAndValleys_detected(well_file, peaks_valleys, window) ==
    well_file.peaks_and_valleys

\* lines 390-401: the peaks and valleys of the well, from peak_detector or from
\* the user.  The well's peaks_and_valleys is what peak_detector returns for
\* its waveform.
PeaksAndValleys(well_file, peaks_valleys, window) ==
    IF peaks_valleys = None
    THEN well_file.peaks_and_valleys
    ELSE get_windowed_peaks_valleys(window[1], window[2],
                                    peaks_valleys[1][well_file.well_index][1],
                                    peaks_valleys[1][well_file.well_index][2])

\* lines 403-434: find_twitch_indices, data_metrics, the except clauses and the
\* well_info
WellInfo(well_file, metrics, peaks_and_valleys, checked) ==
    [well_index |-> well_file.well_index,
     peaks_and_valleys |-> peaks_and_valleys,
     metrics |-> IF checked.kind = "return"
                 THEN data_metrics(peaks_and_valleys, well_file.well_index).value
                 ELSE metrics,
     error_msg |-> ErrorMessage(checked.kind)]

\* lines 386-434: the try statement and the well_info of one well
ProcessWell(well_file, metrics, peaks_valleys, window) ==
    [well_info |-> WellInfo(well_file, metrics,
                            PeaksAndValleys(well_file, peaks_valleys, window),
                            find_twitch_indices(PeaksAndValleys(well_file, peaks_valleys, window))),
     calls |-> [peak_detector |-> IF peaks_valleys = None THEN 1 ELSE 0,
                find_twitch_indices |-> 1,
                data_metrics |->
                    IF find_twitch_indices(PeaksAndValleys(well_file, peaks_valleys, window)).kind = "return"
                    THEN 1 ELSE 0]]

\* aggregate_metrics_df, lines 922-926: the "n (twitches)" row
num_twitches_row(recording_plotting_info) ==
    [k \in 1..Len(recording_plotting_info) |->
        LET well_info == recording_plotting_info[k]
        IN  IF well_info.error_msg # None
            THEN [text |-> well_info.error_msg[1]]
            ELSE [number |-> Len(well_info.metrics.twitch_indices)]]

----------------------------------------------------------------------------
(* nb_peak_detection.py: noise_based_peak_finding.  The sampling frequency  *)
(* is a whole number of Hz and durations are in hundredths of a second, so  *)
(* that duration * sample_freq of the source is duration * sample_freq /    *)
(* 100 here.                                                                *)

INITIAL_PEAK_STARTING_PROM == 5
INITIAL_PEAK_NOISE_ESTIMATE == 10

\* 0.1 s
DEFAULT_NOISE_SEGMENT_DURATION == 10

\* int(duration * sample_freq)
NumSamples(duration, sample_freq) == (duration * sample_freq) \div 100

\* lines 78-81: the search repeated with a lower prominence until it finds a
\* peak, or down to a prominence of 1 * INITIAL_PEAK_NOISE_ESTIMATE
RECURSIVE InitialPeaks(_, _)
InitialPeaksFrom(found, waveform, prom) ==
    IF found # <<>> \/ prom = 1 THEN found ELSE InitialPeaks(waveform, prom - 1)

InitialPeaks(waveform, prom) ==
    InitialPeaksFrom(Prominent(waveform, Rat(prom * INITIAL_PEAK_NOISE_ESTIMATE, 1),
                               LocalMaxima(waveform, 1)),
                     waveform, prom)

\* lines 83-86 and 132-135
TooFewPeaks(peaks) ==
    Raised("TooFewPeaksDetectedError", <<>>, TooFewMessage("peaks", MIN_NUMBER_PEAKS, Len(peaks)))

\* lines 91-93: peaks[-1] of an empty array is an IndexError
RECURSIVE DropTrailingPeaks(_, _, _)
DropTrailingPeaks(peaks, noise_segment_num_samples, length) ==
    IF peaks = <<>> THEN Raised("IndexError", <<>>, NoMessage)
    ELSE IF At(peaks, -1) + noise_segment_num_samples > length
    THEN DropTrailingPeaks(Delete(peaks, Len(peaks) - 1), noise_segment_num_samples, length)
    ELSE Returned(peaks)

\* max(a, b) of two rationals
RatMax(a, b) == IF a.n * b.d >= b.n * a.d THEN a ELSE b

\* lines 117-121 and 126: noise_prominence_factor * noise_amplitude_from_data,
\* where the factor may have been raised to the relative prominence
NoiseProminence(waveform, noise_amplitude_from_data, noise_prominence_factor, relative_prominence_factor) ==
    IF relative_prominence_factor # None /\ relative_prominence_factor[1].n # 0
    THEN RatMax(Rat(relative_prominence_factor[1].n * MaxProminence(waveform),
                    relative_prominence_factor[1].d),
                Rat(noise_prominence_factor.n * noise_amplitude_from_data,
                    noise_prominence_factor.d))
    ELSE Rat(noise_prominence_factor.n * noise_amplitude_from_data, noise_prominence_factor.d)

\* line 73 and 129: sample_freq // max_frequency
PeakDistance(sample_freq, max_frequency) ==
    IF max_frequency # None /\ max_frequency[1] # 0
    THEN sample_freq \div Min2(max_frequency[1], sample_freq)
    ELSE 1

\* the height condition of find_peaks
HighEnough(x, height, peaks) == SelectSeq(peaks, LAMBDA pk : At(x, pk) >= height)

\* the width condition of find_peaks for width=(minimum, maximum)
WidthWithin(x, minimum, maximum, peaks) ==
    SelectSeq(peaks, LAMBDA pk : /\ WidthSuffices(minimum, PeakWidth(x, pk).width)
                                 /\ WidthSuffices(PeakWidth(x, pk).width, maximum))

\* lines 124-130: find_peaks with its height, distance, prominence and width
\* conditions, applied in that order
RefindPeaks(waveform, prominence, width, height, distance) ==
    WidthWithin(waveform, width[1], width[2],
        Prominent(waveform, prominence,
            Spaced(waveform, distance,
                HighEnough(waveform, height, LocalMaxima(waveform, 1)))))

\* lines 139-140
RECURSIVE DropLeadingPeaks(_, _)
DropLeadingPeaks(peaks, valley_search_window_num_samples) ==
    IF peaks # <<>> /\ At(peaks, 0) - valley_search_window_num_samples < 0
    THEN DropLeadingPeaks(Delete(peaks, 0), valley_search_window_num_samples)
    ELSE peaks

\* mutant: every window as long as the valley search
search_windows_unclipped(peaks, valley_search_window_num_samples) ==
    [k \in 1..Len(peaks) |-> valley_search_window_num_samples]

\* lines 146-155: the distance to the peak before (to sample 0 for the first
\* peak), at most valley_search_window_num_samples
search_windows(peaks, valley_search_window_num_samples) ==
    [k \in 1..Len(peaks) |->
        Min2(peaks[k] - (IF k = 1 THEN 0 ELSE peaks[k - 1]), valley_search_window_num_samples)]

\* lines 158-161: the samples of the window before the peak
valley_segment(waveform, peak, segment) ==
    [j \in 1..segment |-> At(waveform, peak - segment + j - 1)]

\* np.where(np.diff(segment) > 0)[0]
Rises(segment) ==
    SortedSeq({j \in 0..(Len(segment) - 2) : At(segment, j + 1) > At(segment, j)})

\* np.split(upslope, np.where(np.diff(upslope) > 1 + allowance)[0] + 1): runs
\* is the list of the groups so far, the last of them still open; the
\* allowance is upslope_noise_allowance_duration * sample_freq, in hundredths
RECURSIVE SplitUpslopes(_, _, _, _)
SplitUpslopes(upslope, k, allowance, runs) ==
    IF k > Len(upslope) THEN runs
    ELSE IF k > 1 /\ (upslope[k] - upslope[k - 1]) * 100 > 100 + allowance
    THEN SplitUpslopes(upslope, k + 1, allowance, Append(runs, <<upslope[k]>>))
    ELSE SplitUpslopes(upslope, k + 1, allowance,
                       [runs EXCEPT ![Len(runs)] = Append(runs[Len(runs)], upslope[k])])

\* lines 167-177: the groups of rising samples of a segment that are long
\* enough; upslope_num_samples is upslope_duration * sample_freq, in hundredths
upslope_indices(segment, upslope_num_samples, allowance) ==
    SelectSeq(SplitUpslopes(Rises(segment), 1, allowance, <<<<>>>>),
              LAMBDA i : Len(i) * 100 >= upslope_num_samples)

\* np.argmin: the first position of the least value
ArgMin(a) == SetMin({j \in 0..(Len(a) - 1) : At(a, j) = SetMin(SeqToSet(a))})

\* max([len(length) for length in upslope])
LongestUpslope(upslope) == SetMax({Len(upslope[k]) : k \in 1..Len(upslope)})

\* lines 180-198: the position in the segment taken as the valley
valley_index(upslope, valley) ==
    IF Len(upslope) = 0 THEN ArgMin(valley)
    ELSE IF Len(upslope) = 1 THEN At(At(upslope, 0), 0)
    ELSE At(At(SelectSeq(upslope, LAMBDA slope : Len(slope) = LongestUpslope(upslope)), 0), 0)

\* lines 158-202: the valley found before each peak
FindValleys(waveform, peaks, windows, upslope_num_samples, allowance) ==
    [k \in 1..Len(peaks) |->
        peaks[k] - (windows[k]
                    - valley_index(upslope_indices(valley_segment(waveform, peaks[k], windows[k]),
                                                   upslope_num_samples, allowance),
                                   valley_segment(waveform, peaks[k], windows[k])))]

\* lines 137-204
FinishNoiseBased(waveform, sample_freq, p, peaks) ==
    IF peaks = <<>> THEN Raised("InvalidValleySearchDurationError", <<>>, NoMessage)
    ELSE Returned(<<peaks,
                    FindValleys(waveform, peaks,
                                search_windows(peaks, NumSamples(p.valley_search_duration, sample_freq)),
                                p.upslope_duration * sample_freq,
                                p.upslope_noise_allowance_duration * sample_freq)>>)

\* lines 123-143
RefindAndFinish(waveform, sample_freq, p, refound) ==
    IF Len(refound) < MIN_NUMBER_PEAKS THEN TooFewPeaks(refound)
    ELSE FinishNoiseBased(waveform, sample_freq, p,
             DropLeadingPeaks(refound, NumSamples(p.valley_search_duration, sample_freq)))

\* lines 88-135: noise_amplitude_from_data is the average peak-to-peak
\* amplitude of the quadratic-detrended segments after the peaks kept
AfterNoiseSegments(waveform, sample_freq, p, noise_amplitude_from_data, kept) ==
    IF kept.kind # "return" THEN kept
    ELSE RefindAndFinish(waveform, sample_freq, p,
             RefindPeaks(waveform,
                         NoiseProminence(waveform, noise_amplitude_from_data,
                                         p.noise_prominence_factor, p.relative_prominence_factor),
                         <<Rat(p.width_factors[1] * sample_freq, 100),
                           Rat(p.width_factors[2] * sample_freq, 100)>>,
                         p.height_factor,
                         PeakDistance(sample_freq, p.max_frequency)))

\* lines 83-93
AfterInitialPeaks(waveform, sample_freq, p, noise_amplitude_from_data, peaks) ==
    IF Len(peaks) < MIN_NUMBER_PEAKS THEN TooFewPeaks(peaks)
    ELSE AfterNoiseSegments(waveform, sample_freq, p, noise_amplitude_from_data,
             DropTrailingPeaks(peaks, NumSamples(DEFAULT_NOISE_SEGMENT_DURATION, sample_freq),
                               Len(waveform)))

noise_based_peak_finding(waveform, sample_freq, p, noise_amplitude_from_data) ==
    AfterInitialPeaks(waveform, sample_freq, p, noise_amplitude_from_data,
                      InitialPeaks(waveform, INITIAL_PEAK_STARTING_PROM))

----------------------------------------------------------------------------
(* The calls of find_twitch_indices that are checked *)

\* every way to mark each index of 0..MaxIndex as a peak, a valley or neither:
\* the strictly increasing peak and valley lists that share no index
FeatureMarks == [0..MaxIndex -> {"peak", "valley", "none"}]
MarkedIndices(marks, kind) == SortedSeq({i \in 0..MaxIndex : marks[i] = kind})

\* the index lists of tests/analysis/test_peak_detection.py
TwoInARowCases == {<<0, 1, 4, 8, 12>>, <<0, 5, 7, 8, 12>>, <<0, 4, 8, 11, 12>>}
TestedCalls ==
    {<<many, <<2, 6, 10>>>> : many \in TwoInARowCases}
    \cup {<<many, <<-2, 2, 6, 10>>>> : many \in TwoInARowCases}
    \cup {<<<<2, 6, 10>>, many>> : many \in TwoInARowCases}
    \cup {<<<<-2, 2, 6, 10>>, many>> : many \in TwoInARowCases}
    \cup {<<<<0, 2, 4, 6, 8, 10>>, <<1, 3, 5, 7, 9>>>>,
          <<<<3, 5, 7, 9, 11>>, <<1, 3, 5, 7, 9>>>>,
          <<<<1, 3, 5>>, <<0, 2, 4>>>>,
          <<<<1, 3, 5>>, <<2, 4, 6>>>>}

\* integer arrays in any order, with repeated and shared values
AnyArrays == UNION {[1..n -> {0, 1, 2}] : n \in 0..MaxArrayLength}

FtiIdle ==
    /\ fti_peak_indices = <<>>
    /\ fti_valley_indices = <<>>
    /\ fti_pc = "idle"
    /\ fti_outcome = Returned(None)

FtiInit ==
    /\ \/ \E marks \in FeatureMarks :
            /\ fti_peak_indices = MarkedIndices(marks, "peak")
            /\ fti_valley_indices = MarkedIndices(marks, "valley")
       \/ /\ fti_peak_indices \in AnyArrays
          /\ fti_valley_indices \in AnyArrays
       \/ \E call \in TestedCalls :
            /\ fti_peak_indices = call[1]
            /\ fti_valley_indices = call[2]
    /\ fti_pc = "call"
    /\ fti_outcome = Returned(None)

CallFindTwitchIndices ==
    /\ fti_pc = "call"
    /\ fti_outcome' = find_twitch_indices(<<fti_peak_indices, fti_valley_indices>>)
    /\ fti_pc' = "done"
    /\ UNCHANGED <<fti_peak_indices, fti_valley_indices>>

----------------------------------------------------------------------------
(* The calls of peak_detector that are checked *)

\* sample values: a rise of 1 inside a valley of depth 3 stays above half depth
Amplitudes == {0, 1, 3}

\* sampling periods in microseconds: 71428 gives 2 required samples between
\* twitches, 47619 gives 3
SamplingPeriods == {71428, 47619}

TimeRow(period) == [k \in 1..SignalLength |-> (k - 1) * period]

\* window bounds: before the recording, on a sample, between samples, past the end
StartTimes(period) == {-period, 0, period, (3 * period) \div 2, 9 * period}
EndTimes(period) == {period, (5 * period) \div 2, 10 * period, Inf}

\* (6, 6) and (7, 7) are the defaults; the others make the conditions bind
FactorChoices == {[prominence |-> <<6, 6>>, width |-> <<7, 7>>],
                  [prominence |-> <<2, 3>>, width |-> <<1, 2>>]}

NoExtrema == [peak_indices |-> <<>>, valley_indices |-> <<>>, left_ips |-> <<>>, right_ips |-> <<>>]

PdIdle ==
    /\ pd_signal = <<<<>>, <<>>>>
    /\ pd_twitches_point_up = TRUE
    /\ pd_start_time = 0
    /\ pd_end_time = Inf
    /\ pd_factors = [prominence |-> <<6, 6>>, width |-> <<7, 7>>]
    /\ pd_pc = "idle"
    /\ pd_found = NoExtrema
    /\ pd_outcome = Returned(None)

PdInit ==
    /\ \E period \in SamplingPeriods :
          /\ \E amplitudes \in [1..SignalLength -> Amplitudes] :
                pd_signal = <<TimeRow(period), amplitudes>>
          /\ pd_start_time \in StartTimes(period)
          /\ pd_end_time \in EndTimes(period)
    /\ pd_twitches_point_up \in BOOLEAN
    /\ pd_factors \in FactorChoices
    /\ pd_pc = "call"
    /\ pd_found = NoExtrema
    /\ pd_outcome = Returned(None)

CallPeakDetector ==
    /\ pd_pc = "call"
    /\ pd_found' = FindExtrema(pd_signal, pd_twitches_point_up,
                               pd_factors.prominence, pd_factors.width)
    /\ pd_outcome' = Returned(peak_detector(pd_signal, pd_twitches_point_up, pd_start_time,
                                            pd_end_time, pd_factors.prominence, pd_factors.width))
    /\ pd_pc' = "done"
    /\ UNCHANGED <<pd_signal, pd_twitches_point_up, pd_start_time, pd_end_time, pd_factors>>

----------------------------------------------------------------------------
(* The calls of write_xlsx that are checked *)

NoCalls == [peak_detector |-> 0, find_twitch_indices |-> 0, data_metrics |-> 0]

\* what peak_detector finds in a well: twitches, too few extrema, two peaks in
\* a row, two valleys in a row
DetectionCases == {<<<<1, 3, 5, 7>>, <<0, 2, 4, 6>>>>,
                   <<<<1, 3>>, <<2>>>>,
                   <<<<0, 1, 4, 8, 12>>, <<2, 6, 10>>>>,
                   <<<<2, 6, 10>>, <<0, 1, 4, 8, 12>>>>}

\* the last timepoint of a well's force data
FinalTimes == {250000, 410000}

\* the files a well position can hold
WellFiles(well_index) ==
    {None} \cup {[well_index |-> well_index, final_time |-> t, peaks_and_valleys |-> pv] :
                     t \in FinalTimes, pv \in DetectionCases}

\* PlateRecording.__init__: no file at all; h5 files, with one at well 0 (line
\* 328 reads self.wells[0]); or one optical file, at the last position
Recordings ==
    LET Filled(n) == {w \in [1..n -> UNION {WellFiles(i) : i \in 0..(n - 1)}] :
                         \A k \in 1..n : w[k] \in WellFiles(k - 1)}
    IN  {<<>>} \cup UNION {{w \in Filled(n) :
                              \/ w[1] # None
                              \/ w[n] # None /\ \A k \in 1..(n - 1) : w[k] = None} :
                          n \in 1..MaxWells}

\* peaks and valleys a user gives for a well: with twitches; with two peaks in
\* a row; with two peaks in a row only after sample 19
UserCases == <<<<<<2, 6, 10, 14, 22>>, <<0, 4, 8, 12, 20>>>>,
               <<<<2, 3, 10, 14>>, <<0, 8, 12>>>>,
               <<<<2, 6, 10, 21, 22>>, <<0, 4, 8, 12>>>>>>

\* the peaks_valleys argument, keyed by well: the first two cases in turn, or
\* the third case for every well
UserPeaksValleys ==
    {[well_index \in 0..(MaxWells - 1) |-> UserCases[1 + (well_index % 2)]],
     [well_index \in 0..(MaxWells - 1) |-> UserCases[3]]}

\* max(raw_timepoints), line 256
XlMaxFinalTime ==
    SetMax({NonEmptyWells(xl_wells)[k].final_time : k \in 1..Len(NonEmptyWells(xl_wells))})

\* window_start_idx and window_end_idx, lines 339-343
XlWindow ==
    truncate(interpolated_timepoints_us(XlMaxFinalTime), xl_start_time, xl_window_end)

XlStartTimes == {-100000, 0, 200000, 250000, 300000}
XlEndTimes == {0, 200000, 300000, 500000, Inf}

XlIdle ==
    /\ xl_peaks_valleys = None
    /\ xl_wells = <<>>
    /\ xl_iter = 0
    /\ xl_start_time = 0
    /\ xl_end_time = Inf
    /\ xl_stim_waveform_format = "None"
    /\ xl_pc = "idle"
    /\ xl_window_end = Inf
    /\ xl_metrics = EmptyMetrics
    /\ xl_recording_plotting_info = <<>>
    /\ xl_calls = NoCalls
    /\ xl_output_file = None
    /\ xl_outcome = Returned(None)

XlInit ==
    /\ xl_peaks_valleys \in {None} \cup {Some(pv) : pv \in UserPeaksValleys}
    /\ xl_wells \in Recordings
    /\ xl_iter = 0
    /\ xl_start_time \in XlStartTimes
    /\ xl_end_time \in XlEndTimes
    /\ xl_stim_waveform_format \in {"None", "bogus"}
    /\ xl_pc = "call"
    /\ xl_window_end = xl_end_time
    /\ xl_metrics = EmptyMetrics
    /\ xl_recording_plotting_info = <<>>
    /\ xl_calls = NoCalls
    /\ xl_output_file = None
    /\ xl_outcome = Returned(None)

\* lines 234-275, up to the for statement of line 340 calling __iter__
CheckArguments ==
    /\ xl_pc = "call"
    /\ LET first_wf == PlateNext(xl_wells, 0)
           raw_timepoints == [k \in 1..Len(NonEmptyWells(xl_wells)) |->
                                 NonEmptyWells(xl_wells)[k].final_time]
       IN  IF first_wf.stop
           THEN /\ xl_outcome' = Raised("StopIteration", <<>>, NoMessage)
                /\ xl_pc' = "raised"
                /\ xl_iter' = first_wf.iter
                /\ UNCHANGED xl_window_end
           ELSE LET error == ArgumentError(xl_stim_waveform_format, xl_start_time,
                                           xl_end_time, raw_timepoints)
                IN  IF error # None
                    THEN /\ xl_outcome' = Raised("ValueError", <<>>, error[1])
                         /\ xl_pc' = "raised"
                         /\ xl_iter' = IF error[1] = "Invalid stim_waveform_format"
                                       THEN first_wf.iter ELSE Len(xl_wells)
                         /\ UNCHANGED xl_window_end
                    ELSE /\ xl_window_end' = Min2(xl_end_time, SetMax(SeqToSet(raw_timepoints)))
                         /\ xl_pc' = "loop"
                         /\ xl_iter' = 0
                         /\ UNCHANGED xl_outcome
    /\ UNCHANGED <<xl_wells, xl_start_time, xl_end_time, xl_stim_waveform_format, xl_peaks_valleys, xl_metrics,
                   xl_recording_plotting_info, xl_calls, xl_output_file>>

\* lines 340-434: one iteration of "for well_file in plate_recording"
ProcessNextWell ==
    /\ xl_pc = "loop"
    /\ ~PlateNext(xl_wells, xl_iter).stop
    /\ LET next == PlateNext(xl_wells, xl_iter)
           done == ProcessWell(next.value, InitialMetrics(xl_metrics), xl_peaks_valleys, XlWindow)
       IN  /\ xl_iter' = next.iter
           /\ xl_metrics' = done.well_info.metrics
           /\ xl_recording_plotting_info' = Append(xl_recording_plotting_info, done.well_info)
           /\ xl_calls' = [f \in DOMAIN xl_calls |-> xl_calls[f] + done.calls[f]]
    /\ UNCHANGED <<xl_wells, xl_start_time, xl_end_time, xl_stim_waveform_format, xl_peaks_valleys, xl_pc,
                   xl_window_end, xl_output_file, xl_outcome>>

\* the loop ends on StopIteration
FinishLoop ==
    /\ xl_pc = "loop"
    /\ PlateNext(xl_wells, xl_iter).stop
    /\ xl_iter' = PlateNext(xl_wells, xl_iter).iter
    /\ xl_pc' = "write"
    /\ UNCHANGED <<xl_wells, xl_start_time, xl_end_time, xl_stim_waveform_format, xl_peaks_valleys,
                   xl_window_end, xl_metrics, xl_recording_plotting_info, xl_calls,
                   xl_output_file, xl_outcome>>

\* lines 436-468: _write_xlsx and the return of the file name
WriteFile ==
    /\ xl_pc = "write"
    /\ xl_output_file' = Some([num_twitches_row |-> num_twitches_row(xl_recording_plotting_info)])
    /\ xl_outcome' = Returned(Some("output_file_name"))
    /\ xl_pc' = "done"
    /\ UNCHANGED <<xl_wells, xl_iter, xl_start_time, xl_end_time, xl_stim_waveform_format, xl_peaks_valleys,
                   xl_window_end, xl_metrics, xl_recording_plotting_info, xl_calls>>

----------------------------------------------------------------------------
(* The calls of noise_based_peak_finding that are checked *)

NbAmplitudes == {0, 20, 60}
NbSampleFreqs == {30, 100}

\* noise_amplitude_from_data comes from a least-squares fit in floating point
\* (lines 95-114); the call is checked for each of these values of it
NbNoiseAmplitudes == {1, 25}

NbBaseParams(valley_search_duration) ==
    [noise_prominence_factor |-> Rat(2, 1),
     relative_prominence_factor |-> None,
     width_factors |-> <<0, 1000>>,
     height_factor |-> 0,
     max_frequency |-> None,
     valley_search_duration |-> valley_search_duration,
     upslope_duration |-> 3,
     upslope_noise_allowance_duration |-> 0]

NbParamChoices ==
    {NbBaseParams(4), NbBaseParams(10), NbBaseParams(30),
     [NbBaseParams(10) EXCEPT !.relative_prominence_factor = Some(Rat(1, 2))],
     [NbBaseParams(4) EXCEPT !.height_factor = 30],
     [NbBaseParams(4) EXCEPT !.max_frequency = Some(15)]}

NbIdle ==
    /\ nb_waveform = <<>>
    /\ nb_sample_freq = 100
    /\ nb_params = NbBaseParams(4)
    /\ nb_noise_amplitude = 1
    /\ nb_pc = "idle"
    /\ nb_outcome = Returned(None)

NbInit ==
    /\ nb_waveform \in [1..WaveformLength -> NbAmplitudes]
    /\ nb_sample_freq \in NbSampleFreqs
    /\ nb_params \in NbParamChoices
    /\ nb_noise_amplitude \in NbNoiseAmplitudes
    /\ nb_pc = "call"
    /\ nb_outcome = Returned(None)

CallNoiseBasedPeakFinding ==
    /\ nb_pc = "call"
    /\ nb_outcome' = noise_based_peak_finding(nb_waveform, nb_sample_freq, nb_params,
                                              nb_noise_amplitude)
    /\ nb_pc' = "done"
    /\ UNCHANGED <<nb_waveform, nb_sample_freq, nb_params, nb_noise_amplitude>>

----------------------------------------------------------------------------
(* The valley searches that are checked *)

VsAmplitudes == {0, 1, 2}

VsIdle ==
    /\ vs_segment = <<>>
    /\ vs_upslope_num_samples = 100
    /\ vs_allowance = 0
    /\ vs_pc = "idle"
    /\ vs_valley_index = None

VsInit ==
    /\ vs_segment \in UNION {[1..n -> VsAmplitudes] : n \in 1..SegmentLength}
    /\ vs_upslope_num_samples \in {100, 150, 200}
    /\ vs_allowance \in {0, 100}
    /\ vs_pc = "call"
    /\ vs_valley_index = None

\* lines 166-198, for one segment
ChooseValley ==
    /\ vs_pc = "call"
    /\ vs_valley_index' = Some(valley_index(upslope_indices(vs_segment, vs_upslope_num_samples,
                                                            vs_allowance),
                                            vs_segment))
    /\ vs_pc' = "done"
    /\ UNCHANGED <<vs_segment, vs_upslope_num_samples, vs_allowance>>

----------------------------------------------------------------------------
(* The calls of peak_detector with prominence_factors and width_factors of
   several shapes *)

\* a Python number and a Python tuple
Number(n) == [type |-> "int", items |-> <<n>>]
Tuple(items) == [type |-> "tuple", items |-> items]

\* obj[i]: a number is not subscriptable, a tuple has len(obj) items
Subscript(obj, i) ==
    IF obj.type # "tuple" THEN Raised("TypeError", <<>>, NoMessage)
    ELSE IF i >= Len(obj.items) THEN Raised("IndexError", <<>>, NoMessage)
    ELSE Returned(At(obj.items, i))

\* the width and prominence keywords of one call of signal.find_peaks, lines
\* 79-84 and 86-91; the keywords are evaluated in the order written
FindPeaksKeywords(filtered_magnetic_signal, width_factor, prominence_factor) ==
    IF width_factor.kind # "return" THEN width_factor
    ELSE IF prominence_factor.kind # "return" THEN prominence_factor
    ELSE Returned([width |-> Rat(min_required_samples_between_twitches(filtered_magnetic_signal[1]),
                                 width_factor.value),
                   prominence |-> Rat(MaxProminence(filtered_magnetic_signal[2]),
                                      prominence_factor.value)])

\* the calls of signal.find_peaks that are made, with their keywords
FindPeaksCalls(first, second) ==
    IF first.kind # "return" THEN <<>>
    ELSE IF second.kind # "return" THEN <<first.value>>
    ELSE <<first.value, second.value>>

\* peak_detector, lines 29-129, for factors that may be numbers or short tuples
PeakDetectorOutcome(filtered_magnetic_signal, prominence_factors, width_factors, first, second) ==
    IF first.kind # "return" THEN first
    ELSE IF second.kind # "return" THEN second
    ELSE Returned(peak_detector(filtered_magnetic_signal, TRUE, 0, Inf,
                                prominence_factors.items, width_factors.items))

\* a factor argument as a 2-tuple, as a 1-tuple and as a single number
FactorShapes == {Tuple(<<1, 2>>), Tuple(<<1>>), Number(1)}

FaIdle ==
    /\ fa_signal = <<<<>>, <<>>>>
    /\ fa_prominence_factors = Tuple(<<6, 6>>)
    /\ fa_width_factors = Tuple(<<7, 7>>)
    /\ fa_pc = "idle"
    /\ fa_find_peaks_calls = <<>>
    /\ fa_outcome = Returned(None)

FaInit ==
    /\ \E period \in SamplingPeriods, amplitudes \in [1..SignalLength -> Amplitudes] :
          fa_signal = <<TimeRow(period), amplitudes>>
    /\ fa_prominence_factors \in FactorShapes
    /\ fa_width_factors \in FactorShapes
    /\ fa_pc = "call"
    /\ fa_find_peaks_calls = <<>>
    /\ fa_outcome = Returned(None)

CallPeakDetectorWithFactors ==
    /\ fa_pc = "call"
    /\ LET first == FindPeaksKeywords(fa_signal, Subscript(fa_width_factors, 0),
                                      Subscript(fa_prominence_factors, 0))
           second == FindPeaksKeywords(fa_signal, Subscript(fa_width_factors, 1),
                                       Subscript(fa_prominence_factors, 1))
       IN  /\ fa_find_peaks_calls' = FindPeaksCalls(first, second)
           /\ fa_outcome' = PeakDetectorOutcome(fa_signal, fa_prominence_factors,
                                                fa_width_factors, first, second)
    /\ fa_pc' = "done"
    /\ UNCHANGED <<fa_signal, fa_prominence_factors, fa_width_factors>>

----------------------------------------------------------------------------
(* The runs of peak_detector's valley repair loop that are checked *)

\* the raw amplitude of a valley, and the two values each of its intersection
\* points is drawn from
ValleyAmplitudes == {1, 2}
LeftIps == {Rat(1, 2), Rat(3, 2)}
RightIps == {Rat(17, 2), Rat(19, 2)}

\* valley k (from 1) sits at index 2k - 1; the samples between valleys are higher
ValleyPositions(n) == [k \in 1..n |-> 2 * k - 1]
SignalWithValleys(amplitudes) ==
    [k \in 1..(2 * Len(amplitudes) + 1) |-> IF k % 2 = 0 THEN amplitudes[k \div 2] ELSE 3]

RpIdle ==
    /\ rp_magnetic_signal = <<>>
    /\ rp_valley_indices = <<>>
    /\ rp_left_ips = <<>>
    /\ rp_right_ips = <<>>
    /\ rp_pc = "idle"
    /\ rp_repaired = [valley_indices |-> <<>>, left_ips |-> <<>>, right_ips |-> <<>>]

RpInit ==
    /\ \E n \in 0..MaxValleys :
          /\ \E amplitudes \in [1..n -> ValleyAmplitudes] :
                rp_magnetic_signal = SignalWithValleys(amplitudes)
          /\ rp_valley_indices = ValleyPositions(n)
          /\ rp_left_ips \in [1..n -> LeftIps]
          /\ rp_right_ips \in [1..n -> RightIps]
    /\ rp_pc = "call"
    /\ rp_repaired = [valley_indices |-> <<>>, left_ips |-> <<>>, right_ips |-> <<>>]

RunRepairLoop ==
    /\ rp_pc = "call"
    /\ rp_repaired' = RepairValleys(rp_magnetic_signal, rp_valley_indices,
                                    rp_left_ips, rp_right_ips, 1)
    /\ rp_pc' = "done"
    /\ UNCHANGED <<rp_magnetic_signal, rp_valley_indices, rp_left_ips, rp_right_ips>>

----------------------------------------------------------------------------
(* The window filters of peak_detector that are checked *)

\* the time row of a trace of MaxIndex + 1 samples
WfTimeRow == [k \in 1..(MaxIndex + 1) |-> (k - 1) * INTERPOLATED_DATA_PERIOD_US]

WfIdle ==
    /\ wf_time_signal = <<>>
    /\ wf_peak_indices = <<>>
    /\ wf_valley_indices = <<>>
    /\ wf_start_time = 0
    /\ wf_end_time = Inf
    /\ wf_pc = "idle"
    /\ wf_windowed = <<<<>>, <<>>>>

WfInit ==
    /\ wf_time_signal = WfTimeRow
    /\ \E marks \in FeatureMarks :
          /\ wf_peak_indices = MarkedIndices(marks, "peak")
          /\ wf_valley_indices = MarkedIndices(marks, "valley")
    /\ wf_start_time \in StartTimes(INTERPOLATED_DATA_PERIOD_US)
    /\ wf_end_time \in EndTimes(INTERPOLATED_DATA_PERIOD_US)
    /\ wf_pc = "call"
    /\ wf_windowed = <<<<>>, <<>>>>

\* lines 53-60 and 117-129
FilterByWindow ==
    /\ wf_pc = "call"
    /\ wf_windowed' = ApplyWindow(wf_time_signal, wf_peak_indices, wf_valley_indices,
                                  wf_start_time, wf_end_time)
    /\ wf_pc' = "done"
    /\ UNCHANGED <<wf_time_signal, wf_peak_indices, wf_valley_indices, wf_start_time, wf_end_time>>

----------------------------------------------------------------------------
(* plate_recording.py: the baseline data array of _process_plate_data *)

\* math.ceil(num_samples_in_recording / num_samples_in_baseline), floored
NumTimesToDuplicate_floor(num_samples_in_recording, num_samples_in_baseline) ==
    num_samples_in_recording \div num_samples_in_baseline

\* math.ceil(num_samples_in_recording / num_samples_in_baseline)
NumTimesToDuplicate(num_samples_in_recording, num_samples_in_baseline) ==
    (num_samples_in_recording + num_samples_in_baseline - 1) \div num_samples_in_baseline

\* np.tile along the last axis: reps copies of the row, one after the other
RECURSIVE Tile(_, _)
Tile(row, reps) == IF reps <= 0 THEN <<>> ELSE row \o Tile(row, reps - 1)

\* row[:n]
Truncated(row, n) == [k \in 1..Min2(n, Len(row)) |-> row[k]]

\* lines 363-370: the row tiled and truncated to the samples of the recording
ExtendedBaseline(row, num_samples_in_recording) ==
    Truncated(Tile(row, NumTimesToDuplicate(num_samples_in_recording, Len(row))),
              num_samples_in_recording)

\* row[-n:]
LastOf(row, n) == [k \in 1..Min2(n, Len(row)) |-> row[Len(row) - Min2(n, Len(row)) + k]]

RECURSIVE Sum(_)
Sum(row) == IF row = <<>> THEN 0 ELSE row[1] + Sum(Tail(row))

\* lines 359-361: np.mean over the last timepoints, reshaped to one timepoint
MeanOfBaseline(row, mean_num_data_points) ==
    <<Rat(Sum(LastOf(row, mean_num_data_points)), Len(LastOf(row, mean_num_data_points)))>>

\* lines 357-370, for every (well, sensor, axis)
BaselineForEstimator(baseline_data_mt, num_samples_in_recording, use_mean_of_baseline, mean_num_data_points) ==
    [c \in DOMAIN baseline_data_mt |->
        IF use_mean_of_baseline
        THEN MeanOfBaseline(baseline_data_mt[c], mean_num_data_points)
        ELSE ExtendedBaseline(baseline_data_mt[c], num_samples_in_recording)]

----------------------------------------------------------------------------
(* The baselines of _process_plate_data that are checked *)

\* the (well, sensor, axis) triples of the model, for the 24 x 3 x 3 of a plate
Channels == 1..NumChannels

FluxValues == {0, 1}

\* BASELINE_MEAN_NUM_DATA_POINTS is imported from constants.py, which does not
\* define it: every value up to the longest baseline and one beyond
MeanNumDataPoints == 1..(MaxBaselineSamples + 1)

BlIdle ==
    /\ bl_baseline_data_mt = <<>>
    /\ bl_num_samples_in_recording = 0
    /\ bl_use_mean_of_baseline = FALSE
    /\ bl_mean_num_data_points = 1
    /\ bl_pc = "idle"
    /\ bl_passed = <<>>

BlInit ==
    /\ \E m \in 1..MaxBaselineSamples :
          bl_baseline_data_mt \in [Channels -> [1..m -> FluxValues]]
    /\ bl_num_samples_in_recording \in 0..MaxRecordingSamples
    /\ bl_use_mean_of_baseline \in BOOLEAN
    /\ bl_mean_num_data_points \in MeanNumDataPoints
    /\ bl_pc = "call"
    /\ bl_passed = <<>>

CreateBaseline ==
    /\ bl_pc = "call"
    /\ bl_passed' = BaselineForEstimator(bl_baseline_data_mt, bl_num_samples_in_recording,
                                         bl_use_mean_of_baseline, bl_mean_num_data_points)
    /\ bl_pc' = "done"
    /\ UNCHANGED <<bl_baseline_data_mt, bl_num_samples_in_recording, bl_use_mean_of_baseline, bl_mean_num_data_points>>

----------------------------------------------------------------------------
(* plate_recording.py: WellFile._load_magnetic_data and the displacement loop of _process_plate_data *)

MICROSECONDS_PER_CENTIMILLISECOND == 10

\* VersionInfo comparison: a >= b, on <<major, minor, patch>>
VersionAtLeast(a, b) ==
    \/ a[1] > b[1]
    \/ a[1] = b[1] /\ a[2] > b[2]
    \/ a[1] = b[1] /\ a[2] = b[2] /\ a[3] >= b[3]

\* lines 153-159: a copy of the readings with the times scaled and, for magnetic
\* data, the values flipped
AdjRawTissueReading(tissue_readings, is_magnetic_data) ==
    <<Scale(tissue_readings[1], IF is_magnetic_data THEN MICROSECONDS_PER_CENTIMILLISECOND ELSE MICRO_TO_BASE_CONVERSION),
      IF is_magnetic_data THEN Scale(tissue_readings[2], -1) ELSE tissue_readings[2]>>

\* estimated_magnet_positions["X"][:, well_idx]: the column of the well
XOfWell(X, well_idx) == [t \in DOMAIN X |-> X[t][well_idx + 1]]

\* x *= -1 where x is a view of column well_idx: the array holding the column changes
NegatedInPlace(X, well_idx) == [t \in DOMAIN X |-> [X[t] EXCEPT ![well_idx + 1] = 0 - @]]

\* line 378
FlipData(version) == VersionAtLeast(version, <<1, 1, 0>>)

\* lines 384-386: the estimator's X array after the loop body for well_idx
XAfterWell(X, well_idx, flip_data) == IF flip_data THEN NegatedInPlace(X, well_idx) ELSE X

----------------------------------------------------------------------------
(* The recordings whose processing stages are checked *)

Versions == {<<0, 4, 2>>, <<1, 0, 0>>, <<1, 1, 0>>}

ReadingValues == {-1, 0, 1}

\* a 2 x NumTimepoints array: time indices 0, 1, ... and the sensor values
SensorReadings == {<<[t \in 1..NumTimepoints |-> t - 1], values>> : values \in [1..NumTimepoints -> ReadingValues]}

StIdle ==
    /\ st_version = <<0, 0, 0>>
    /\ st_is_magnetic_data = FALSE
    /\ st_readings = <<>>
    /\ st_raw_magnetic_data = <<>>
    /\ st_X = <<>>
    /\ st_well_idx = 0
    /\ st_displacement = <<>>
    /\ st_pc = "idle"

\* WellFile.__init__ lines 116-130 and 149, PlateRecording.__init__ lines 326-332:
\* Beta 1 .h5 files and optical files run _load_magnetic_data, the .h5 files of
\* version 1.0.0 and later are processed together by _process_plate_data
StInit ==
    /\ st_version \in Versions
    /\ st_is_magnetic_data \in BOOLEAN
    /\ st_readings \in [tissue : SensorReadings, reference : SensorReadings]
    /\ st_raw_magnetic_data = <<>>
    /\ st_X = <<>>
    /\ st_well_idx = 0
    /\ st_displacement = <<>>
    /\ st_pc = IF st_is_magnetic_data /\ VersionAtLeast(st_version, <<1, 0, 0>>) THEN "estimate" ELSE "load"

\* WellFile._load_magnetic_data, lines 152-162
LoadMagneticData ==
    /\ st_pc = "load"
    /\ st_raw_magnetic_data' = [tissue |-> AdjRawTissueReading(st_readings.tissue, st_is_magnetic_data), reference |-> st_readings.reference]
    /\ st_pc' = "done"
    /\ UNCHANGED <<st_version, st_is_magnetic_data, st_readings, st_X, st_well_idx, st_displacement>>

\* find_magnet_positions, lines 374-376: one X per timepoint and well
EstimateMagnetPositions ==
    /\ st_pc = "estimate"
    /\ st_X' \in [1..NumTimepoints -> [1..NumPlateWells -> ReadingValues]]
    /\ st_pc' = "wells"
    /\ UNCHANGED <<st_version, st_is_magnetic_data, st_readings, st_raw_magnetic_data, st_well_idx, st_displacement>>

\* one pass of the loop of lines 382-391
CreateDisplacement ==
    /\ st_pc = "wells"
    /\ st_X' = XAfterWell(st_X, st_well_idx, FlipData(st_version))
    /\ st_displacement' = Append(st_displacement, XOfWell(XAfterWell(st_X, st_well_idx, FlipData(st_version)), st_well_idx))
    /\ st_well_idx' = st_well_idx + 1
    /\ st_pc' = IF st_well_idx + 1 < NumPlateWells THEN "wells" ELSE "done"
    /\ UNCHANGED <<st_version, st_is_magnetic_data, st_readings, st_raw_magnetic_data>>

----------------------------------------------------------------------------
(* excel_writer.py: aggregate_metrics_df, per_twitch_df and the charts of _write_xlsx *)

\* constants.py lines 176-190, by the names of the UUIDs
ALL_METRICS == <<"TWITCH_PERIOD", "FRACTION_MAX", "AMPLITUDE", "AUC", "TWITCH_FREQUENCY", "CONTRACTION_VELOCITY", "RELAXATION_VELOCITY", "IRREGULARITY_INTERVAL", "BASELINE_TO_PEAK", "PEAK_TO_BASELINE", "WIDTH", "RELAXATION_TIME", "CONTRACTION_TIME">>

RECURSIVE ConcatAll(_)
ConcatAll(seqs) == IF seqs = <<>> THEN <<>> ELSE Head(seqs) \o ConcatAll(Tail(seqs))

\* a metric of a sheet: the metric and the width its display name is formatted with
Metric(metric_id, width) == [metric_id |-> metric_id, width |-> width]

\* aggregate_metrics_df lines 939-941
AggregateBaselineWidth(metric_id, baseline_widths_to_use) ==
    IF metric_id = "BASELINE_TO_PEAK" THEN At(baseline_widths_to_use, 0) ELSE At(baseline_widths_to_use, 1)

\* aggregate_metrics_df lines 932-950: what one metric_id adds to the frame
AggregateMetric(metric_id, widths, baseline_widths_to_use) ==
    IF metric_id \in {"WIDTH", "RELAXATION_TIME", "CONTRACTION_TIME"}
    THEN [k \in 1..Len(widths) |-> Metric(metric_id, Some(widths[k]))]
    ELSE IF metric_id \in {"BASELINE_TO_PEAK", "PEAK_TO_BASELINE"}
    THEN IF AggregateBaselineWidth(metric_id, baseline_widths_to_use) \notin SeqToSet(widths)
         THEN <<Metric(metric_id, Some(AggregateBaselineWidth(metric_id, baseline_widths_to_use)))>>
         ELSE <<>>
    ELSE <<Metric(metric_id, None)>>

\* aggregate_metrics_df lines 931-950: the metrics of the frame, in order
aggregate_metrics_df(widths, baseline_widths_to_use) ==
    ConcatAll([k \in 1..Len(ALL_METRICS) |-> AggregateMetric(ALL_METRICS[k], widths, baseline_widths_to_use)])

\* per_twitch_df lines 1015-1019, taking baseline_widths_to_use[0] for both metrics
PerTwitchBaselineWidth_first(metric_id, baseline_widths_to_use) == At(baseline_widths_to_use, 0)

\* per_twitch_df lines 1015-1019
PerTwitchBaselineWidth(metric_id, baseline_widths_to_use) ==
    IF metric_id = "BASELINE_TO_PEAK" THEN At(baseline_widths_to_use, 0) ELSE At(baseline_widths_to_use, 1)

\* per_twitch_df lines 1008-1030: the series one metric_id adds for a well
PerTwitchMetric(metric_id, widths, baseline_widths_to_use) ==
    IF metric_id \in {"WIDTH", "RELAXATION_TIME", "CONTRACTION_TIME"}
    THEN [k \in 1..Len(widths) |-> Metric(metric_id, Some(widths[k]))]
    ELSE IF metric_id \in {"BASELINE_TO_PEAK", "PEAK_TO_BASELINE"}
    THEN IF PerTwitchBaselineWidth(metric_id, baseline_widths_to_use) \notin SeqToSet(widths)
         THEN <<Metric(metric_id, Some(PerTwitchBaselineWidth(metric_id, baseline_widths_to_use)))>>
         ELSE <<>>
    ELSE <<Metric(metric_id, None)>>

\* per_twitch_df lines 1007-1030: the metric series of a well, in order
PerTwitchMetrics(widths, baseline_widths_to_use) ==
    ConcatAll([k \in 1..Len(ALL_METRICS) |-> PerTwitchMetric(ALL_METRICS[k], widths, baseline_widths_to_use)])

\* the first cell of a series that is not a metric's
Text(text) == [text |-> text]

\* a row of the per-twitch sheet: the well whose values it holds and what it holds
SheetRow(well_index, holds) == [well_index |-> well_index, holds |-> holds]

\* per_twitch_df lines 995-1034: the series of one well
WellSeries(well_index, metrics) ==
    <<SheetRow(well_index, Text("well_name")), SheetRow(well_index, Text("Timepoint of Twitch Contraction"))>>
    \o [k \in 1..Len(metrics) |-> SheetRow(well_index, metrics[k])]
    \o [k \in 1..5 |-> SheetRow(well_index, Text(""))]

\* per_twitch_df: the frame, one row per series, and num_per_twitch_metrics
per_twitch_df(well_indices, widths, baseline_widths_to_use) ==
    [df |-> ConcatAll([k \in 1..Len(well_indices) |-> WellSeries(well_indices[k], PerTwitchMetrics(widths, baseline_widths_to_use))]),
     num_per_twitch_metrics |-> 2 + Len(PerTwitchMetrics(widths, baseline_widths_to_use)) + 5]

\* create_frequency_vs_time_charts lines 163-170 and
\* create_force_frequency_relationship_charts lines 122-127: the rows of the
\* per-twitch sheet, as Excel numbers them, that the series of the charts name
ChartsOfWell(well_index, num_per_twitch_metrics) ==
    [well_index |-> well_index,
     frequency_chart |-> [categories |-> well_index * num_per_twitch_metrics + 2,
                          values |-> well_index * num_per_twitch_metrics + 7],
     force_frequency_chart |-> [categories |-> well_index * num_per_twitch_metrics + 7,
                                values |-> well_index * num_per_twitch_metrics + 5]]

----------------------------------------------------------------------------
(* The workbooks whose metric sheets and charts are checked *)

WidthPercents == {10, 50, 90}

\* the wells of recording_plotting_info: write_xlsx appends one entry per file
\* of the recording, in the order of the well indices
PresentWells == {SortedSeq(s) : s \in (SUBSET (0..(NumPlateWells - 1))) \ {{}}}

ShIdle ==
    /\ sh_well_indices = <<>>
    /\ sh_twitch_widths = <<>>
    /\ sh_baseline_widths_to_use = <<>>
    /\ sh_pc = "idle"
    /\ sh_aggregate = <<>>
    /\ sh_per_twitch = <<>>
    /\ sh_charts = <<>>

ShInit ==
    /\ sh_well_indices \in PresentWells
    /\ sh_twitch_widths \in UNION {[1..n -> WidthPercents] : n \in 0..MaxTwitchWidths}
    /\ sh_baseline_widths_to_use \in [1..2 -> WidthPercents]
    /\ sh_pc = "aggregate"
    /\ sh_aggregate = <<>>
    /\ sh_per_twitch = <<>>
    /\ sh_charts = <<>>

\* _write_xlsx line 635
WriteAggregateMetrics ==
    /\ sh_pc = "aggregate"
    /\ sh_aggregate' = aggregate_metrics_df(sh_twitch_widths, sh_baseline_widths_to_use)
    /\ sh_pc' = "per_twitch"
    /\ UNCHANGED <<sh_well_indices, sh_twitch_widths, sh_baseline_widths_to_use, sh_per_twitch, sh_charts>>

\* _write_xlsx lines 637-639
WritePerTwitchMetrics ==
    /\ sh_pc = "per_twitch"
    /\ sh_per_twitch' = per_twitch_df(sh_well_indices, sh_twitch_widths, sh_baseline_widths_to_use)
    /\ sh_pc' = "charts"
    /\ UNCHANGED <<sh_well_indices, sh_twitch_widths, sh_baseline_widths_to_use, sh_aggregate, sh_charts>>

\* _write_xlsx lines 645-671
CreateCharts ==
    /\ sh_pc = "charts"
    /\ sh_charts' = [k \in 1..Len(sh_well_indices) |-> ChartsOfWell(sh_well_indices[k], sh_per_twitch.num_per_twitch_metrics)]
    /\ sh_pc' = "done"
    /\ UNCHANGED <<sh_well_indices, sh_twitch_widths, sh_baseline_widths_to_use, sh_aggregate, sh_per_twitch>>

----------------------------------------------------------------------------
(* excel_writer.py: the window of a well's interpolated timepoints in write_xlsx *)

\* a[start:stop], for 0 <= start and 0 <= stop
Slice(a, start, stop) == [k \in 1..(Min2(stop, Len(a)) - start) |-> a[start + k]]

\* lines 356-380: start_idx and end_idx from the two calls of truncate, and
\* interpolated_timepoints_us[start_idx:end_idx]
WindowedTimepointsUs(timepoints_us, well_bounds, window_bounds) ==
    Slice(timepoints_us, Max2(window_bounds[1], well_bounds[1]), Min2(window_bounds[2], well_bounds[2]))

----------------------------------------------------------------------------
(* The wells and windows whose windowed timepoints are checked *)

SlFirstTimes == {0, 10000, 25000}
SlLastTimes == {100000, 105000, 120000}
SlStartTimes == {0, 20000, 35000, 90000}
SlEndTimes == {40000, 100000, 115000, Inf}

SlIdle ==
    /\ sl_first_time = 0
    /\ sl_last_time = 0
    /\ sl_max_final_time = 0
    /\ sl_start_time = 0
    /\ sl_end_time = 0
    /\ sl_pc = "idle"
    /\ sl_windowed = <<>>

\* lines 255-274: the window has passed the checks of the arguments and
\* end_time is at most the longest well's last timepoint
SlInit ==
    /\ sl_first_time \in SlFirstTimes
    /\ sl_last_time \in SlLastTimes
    /\ sl_max_final_time \in {t \in SlLastTimes : t >= sl_last_time}
    /\ sl_start_time \in SlStartTimes
    /\ sl_end_time \in {Min2(t, sl_max_final_time) : t \in {t \in SlEndTimes : t > sl_start_time}}
    /\ sl_pc = "call"
    /\ sl_windowed = <<>>

\* lines 356-380, for one well
WindowWell ==
    /\ sl_pc = "call"
    /\ sl_windowed' = WindowedTimepointsUs(interpolated_timepoints_us(sl_max_final_time),
                                           truncate(interpolated_timepoints_us(sl_max_final_time), sl_first_time, sl_last_time),
                                           truncate(interpolated_timepoints_us(sl_max_final_time), sl_start_time, sl_end_time))
    /\ sl_pc' = "done"
    /\ UNCHANGED <<sl_first_time, sl_last_time, sl_max_final_time, sl_start_time, sl_end_time>>

----------------------------------------------------------------------------
(* The loops over a PlateRecording that are checked *)

Loops == {1, 2}

\* a loop before its for statement
NotStarted == [pc |-> "before", yielded |-> <<>>, alone |-> TRUE]

\* PlateRecording.wells: a file or None at each of up to MaxWells positions
PlateWells == UNION {[1..n -> {None, Some("well_file")}] : n \in 0..MaxWells}

ItIdle ==
    /\ it_wells = <<>>
    /\ it_iter = 0
    /\ it_loops = <<>>

\* PlateRecording.__init__, lines 308-312
ItInit ==
    /\ it_wells \in PlateWells
    /\ it_iter = 0
    /\ it_loops = [loop \in Loops |-> NotStarted]

\* the for statement calls __iter__ (lines 441-443); alone records whether no
\* other loop over the object is running
StartLoop(loop) ==
    /\ it_loops[loop].pc = "before"
    /\ it_iter' = 0
    /\ it_loops' = [it_loops EXCEPT ![loop] = [pc |-> "looping", yielded |-> <<>>, alone |-> \A other \in Loops \ {loop} : it_loops[other].pc # "looping"],
                                    ![3 - loop] = [@ EXCEPT !.alone = @ /\ it_loops[3 - loop].pc # "looping"]]
    /\ UNCHANGED it_wells

\* the loop calls __next__ (lines 445-453): the body runs for the well
\* returned, or the loop ends on StopIteration
NextOfLoop(loop) ==
    /\ it_loops[loop].pc = "looping"
    /\ it_iter' = PlateNext(it_wells, it_iter).iter
    /\ it_loops' = [it_loops EXCEPT ![loop] =
                        IF PlateNext(it_wells, it_iter).stop
                        THEN [@ EXCEPT !.pc = "ended"]
                        ELSE [@ EXCEPT !.yielded = Append(@, PlateNext(it_wells, it_iter).iter - 1)]]
    /\ UNCHANGED it_wells

----------------------------------------------------------------------------
(* plate_recording.py: _find_start_index *)

\* lines 482-484: the while loop, from start_index and time_from_start on
RECURSIVE StartIndexLoop(_, _, _, _)
StartIndexLoop(from_start, old_data, start_index, time_from_start) ==
    IF start_index + 1 < Len(old_data) /\ from_start >= time_from_start
    THEN StartIndexLoop(from_start, old_data, start_index + 1, At(old_data, start_index + 1) - At(old_data, 0))
    ELSE start_index

\* lines 479-486
_find_start_index(from_start, old_data) == StartIndexLoop(from_start, old_data, 0, 0) - 1

----------------------------------------------------------------------------
(* The calls of _find_start_index that are checked *)

\* non-empty strictly increasing times over 0 .. MaxIndex
IncreasingTimes == {SortedSeq(s) : s \in (SUBSET (0..MaxIndex)) \ {{}}}

FsIdle ==
    /\ fs_old_data = <<>>
    /\ fs_from_start = 0
    /\ fs_pc = "idle"
    /\ fs_start_index = 0

FsInit ==
    /\ fs_old_data \in IncreasingTimes
    /\ fs_from_start \in 0..(MaxIndex + 1)
    /\ fs_pc = "call"
    /\ fs_start_index = 0

\* _load_reading line 302
CallFindStartIndex ==
    /\ fs_pc = "call"
    /\ fs_start_index' = _find_start_index(fs_from_start, fs_old_data)
    /\ fs_pc' = "done"
    /\ UNCHANGED <<fs_old_data, fs_from_start>>

----------------------------------------------------------------------------
(* Specifications *)

\* calls of find_twitch_indices
Init == FtiInit /\ PdIdle /\ XlIdle /\ NbIdle /\ VsIdle /\ FaIdle /\ RpIdle /\ WfIdle /\ BlIdle /\ StIdle /\ ShIdle /\ SlIdle /\ ItIdle /\ FsIdle
Next == CallFindTwitchIndices /\ UNCHANGED <<pd_vars, xl_vars, nb_vars, vs_vars, fa_vars, rp_vars, wf_vars, bl_vars, st_vars, sh_vars, sl_vars, it_vars, fs_vars>>
Spec == Init /\ [][Next]_vars

\* calls of peak_detector
DetectInit == PdInit /\ FtiIdle /\ XlIdle /\ NbIdle /\ VsIdle /\ FaIdle /\ RpIdle /\ WfIdle /\ BlIdle /\ StIdle /\ ShIdle /\ SlIdle /\ ItIdle /\ FsIdle
DetectNext == CallPeakDetector /\ UNCHANGED <<fti_vars, xl_vars, nb_vars, vs_vars, fa_vars, rp_vars, wf_vars, bl_vars, st_vars, sh_vars, sl_vars, it_vars, fs_vars>>
SpecDetect == DetectInit /\ [][DetectNext]_vars

\* calls of write_xlsx
XlsxInit == XlInit /\ FtiIdle /\ PdIdle /\ NbIdle /\ VsIdle /\ FaIdle /\ RpIdle /\ WfIdle /\ BlIdle /\ StIdle /\ ShIdle /\ SlIdle /\ ItIdle /\ FsIdle
XlsxNext ==
    \/ CheckArguments /\ UNCHANGED <<fti_vars, pd_vars, nb_vars, vs_vars, fa_vars, rp_vars, wf_vars, bl_vars, st_vars, sh_vars, sl_vars, it_vars, fs_vars>>
    \/ ProcessNextWell /\ UNCHANGED <<fti_vars, pd_vars, nb_vars, vs_vars, fa_vars, rp_vars, wf_vars, bl_vars, st_vars, sh_vars, sl_vars, it_vars, fs_vars>>
    \/ FinishLoop /\ UNCHANGED <<fti_vars, pd_vars, nb_vars, vs_vars, fa_vars, rp_vars, wf_vars, bl_vars, st_vars, sh_vars, sl_vars, it_vars, fs_vars>>
    \/ WriteFile /\ UNCHANGED <<fti_vars, pd_vars, nb_vars, vs_vars, fa_vars, rp_vars, wf_vars, bl_vars, st_vars, sh_vars, sl_vars, it_vars, fs_vars>>
SpecXlsx == XlsxInit /\ [][XlsxNext]_vars

\* calls of noise_based_peak_finding
NoiseInit == NbInit /\ FtiIdle /\ PdIdle /\ XlIdle /\ VsIdle /\ FaIdle /\ RpIdle /\ WfIdle /\ BlIdle /\ StIdle /\ ShIdle /\ SlIdle /\ ItIdle /\ FsIdle
NoiseNext == CallNoiseBasedPeakFinding /\ UNCHANGED <<fti_vars, pd_vars, xl_vars, vs_vars, fa_vars, rp_vars, wf_vars, bl_vars, st_vars, sh_vars, sl_vars, it_vars, fs_vars>>
SpecNoise == NoiseInit /\ [][NoiseNext]_vars

\* the valley search of noise_based_peak_finding, a segment at a time
ValleyInit == VsInit /\ FtiIdle /\ PdIdle /\ XlIdle /\ NbIdle /\ FaIdle /\ RpIdle /\ WfIdle /\ BlIdle /\ StIdle /\ ShIdle /\ SlIdle /\ ItIdle /\ FsIdle
ValleyNext == ChooseValley /\ UNCHANGED <<fti_vars, pd_vars, xl_vars, nb_vars, fa_vars, rp_vars, wf_vars, bl_vars, st_vars, sh_vars, sl_vars, it_vars, fs_vars>>
SpecValley == ValleyInit /\ [][ValleyNext]_vars

\* calls of peak_detector with factors of every accepted shape
FactorsInit == FaInit /\ FtiIdle /\ PdIdle /\ XlIdle /\ NbIdle /\ VsIdle /\ RpIdle /\ WfIdle /\ BlIdle /\ StIdle /\ ShIdle /\ SlIdle /\ ItIdle /\ FsIdle
FactorsNext == CallPeakDetectorWithFactors /\ UNCHANGED <<fti_vars, pd_vars, xl_vars, nb_vars, vs_vars, rp_vars, wf_vars, bl_vars, st_vars, sh_vars, sl_vars, it_vars, fs_vars>>
SpecFactors == FactorsInit /\ [][FactorsNext]_vars

\* runs of the valley repair loop of peak_detector
RepairInit == RpInit /\ FtiIdle /\ PdIdle /\ XlIdle /\ NbIdle /\ VsIdle /\ FaIdle /\ WfIdle /\ BlIdle /\ StIdle /\ ShIdle /\ SlIdle /\ ItIdle /\ FsIdle
RepairNext == RunRepairLoop /\ UNCHANGED <<fti_vars, pd_vars, xl_vars, nb_vars, vs_vars, fa_vars, wf_vars, bl_vars, st_vars, sh_vars, sl_vars, it_vars, fs_vars>>
SpecRepair == RepairInit /\ [][RepairNext]_vars

------------------------------------------------------------\* the window filter of peak_detector on the extrema of a full trace
WindowInit == WfInit /\ FtiIdle /\ PdIdle /\ XlIdle /\ NbIdle /\ VsIdle /\ FaIdle /\ RpIdle /\ BlIdle /\ StIdle /\ ShIdle /\ SlIdle /\ ItIdle /\ FsIdle
WindowNext == FilterByWindow /\ UNCHANGED <<fti_vars, pd_vars, xl_vars, nb_vars, vs_vars, fa_vars, rp_vars, bl_vars, st_vars, sh_vars, sl_vars, it_vars, fs_vars>>
SpecWindow == WindowInit /\ [][WindowNext]_vars

\* the baseline _process_plate_data gives the magnet-position estimator
BaselineInit == BlInit /\ FtiIdle /\ PdIdle /\ XlIdle /\ NbIdle /\ VsIdle /\ FaIdle /\ RpIdle /\ WfIdle /\ StIdle /\ ShIdle /\ SlIdle /\ ItIdle /\ FsIdle
BaselineNext == CreateBaseline /\ UNCHANGED <<fti_vars, pd_vars, xl_vars, nb_vars, vs_vars, fa_vars, rp_vars, wf_vars, st_vars, sh_vars, sl_vars, it_vars, fs_vars>>
SpecBaseline == BaselineInit /\ [][BaselineNext]_vars

\* the processing stages of WellFile and PlateRecording and the arrays they are given
StagesInit == StInit /\ FtiIdle /\ PdIdle /\ XlIdle /\ NbIdle /\ VsIdle /\ FaIdle /\ RpIdle /\ WfIdle /\ BlIdle /\ ShIdle /\ SlIdle /\ ItIdle /\ FsIdle
StagesNext == (LoadMagneticData \/ EstimateMagnetPositions \/ CreateDisplacement) /\ UNCHANGED <<fti_vars, pd_vars, xl_vars, nb_vars, vs_vars, fa_vars, rp_vars, wf_vars, bl_vars, sh_vars, sl_vars, it_vars, fs_vars>>
SpecStages == StagesInit /\ [][StagesNext]_vars

\* the metric sheets and the charts of _write_xlsx
SheetsInit == ShInit /\ FtiIdle /\ PdIdle /\ XlIdle /\ NbIdle /\ VsIdle /\ FaIdle /\ RpIdle /\ WfIdle /\ BlIdle /\ StIdle /\ SlIdle /\ ItIdle /\ FsIdle
SheetsNext == (WriteAggregateMetrics \/ WritePerTwitchMetrics \/ CreateCharts) /\ UNCHANGED <<fti_vars, pd_vars, xl_vars, nb_vars, vs_vars, fa_vars, rp_vars, wf_vars, bl_vars, st_vars, sl_vars, it_vars, fs_vars>>
SpecSheets == SheetsInit /\ [][SheetsNext]_vars

\* the windowed timepoints write_xlsx analyses for a well
SliceInit == SlInit /\ FtiIdle /\ PdIdle /\ XlIdle /\ NbIdle /\ VsIdle /\ FaIdle /\ RpIdle /\ WfIdle /\ BlIdle /\ StIdle /\ ShIdle /\ ItIdle /\ FsIdle
SliceNext == WindowWell /\ UNCHANGED <<fti_vars, pd_vars, xl_vars, nb_vars, vs_vars, fa_vars, rp_vars, wf_vars, bl_vars, st_vars, sh_vars, it_vars, fs_vars>>
SpecSlice == SliceInit /\ [][SliceNext]_vars

\* two for loops over one PlateRecording
IterateInit == ItInit /\ FtiIdle /\ PdIdle /\ XlIdle /\ NbIdle /\ VsIdle /\ FaIdle /\ RpIdle /\ WfIdle /\ BlIdle /\ StIdle /\ ShIdle /\ SlIdle /\ FsIdle
IterateNext == (\E loop \in Loops : StartLoop(loop) \/ NextOfLoop(loop)) /\ UNCHANGED <<fti_vars, pd_vars, xl_vars, nb_vars, vs_vars, fa_vars, rp_vars, wf_vars, bl_vars, st_vars, sh_vars, sl_vars, fs_vars>>
SpecIterate == IterateInit /\ [][IterateNext]_vars

\* _find_start_index
StartIndexInit == FsInit /\ FtiIdle /\ PdIdle /\ XlIdle /\ NbIdle /\ VsIdle /\ FaIdle /\ RpIdle /\ WfIdle /\ BlIdle /\ StIdle /\ ShIdle /\ SlIdle /\ ItIdle
StartIndexNext == CallFindStartIndex /\ UNCHANGED <<fti_vars, pd_vars, xl_vars, nb_vars, vs_vars, fa_vars, rp_vars, wf_vars, bl_vars, st_vars, sh_vars, sl_vars, it_vars>>
SpecStartIndex == StartIndexInit /\ [][StartIndexNext]_vars

----------------
(* Properties of find_twitch_indices *)

FtiPeaks == SeqToSet(fti_peak_indices)
FtiValleys == SeqToSet(fti_valley_indices)

StrictlyIncreasing(s) == \A k \in 1..(Len(s) - 1) : s[k] < s[k + 1]

\* the precondition of the claims: each list strictly increasing, no shared index
FtiWellFormedInput ==
    /\ StrictlyIncreasing(fti_peak_indices)
    /\ StrictlyIncreasing(fti_valley_indices)
    /\ FtiPeaks \cap FtiValleys = {}

FtiDone == fti_pc = "done"
FtiReturned == FtiDone /\ fti_outcome.kind = "return"

\* both lists merged and sorted by index
FtiMerged == SortedSeq(FtiPeaks \cup FtiValleys)

\* C1: when find_twitch_indices returns on well-formed lists of at least 3
\* peaks and 3 valleys, no two adjacent entries of the merged, index-sorted
\* sequence are of the same kind, the pair at the very first and the pair at
\* the very last position excepted.
C1_AlternationOnSuccess ==
    (FtiWellFormedInput /\ FtiReturned
        /\ Len(fti_peak_indices) >= 3 /\ Len(fti_valley_indices) >= 3)
    => \A k \in 2..(Len(FtiMerged) - 2) :
           (FtiMerged[k] \in FtiPeaks) # (FtiMerged[k + 1] \in FtiPeaks)

C1_Witness ==
    /\ FtiWellFormedInput /\ FtiReturned
    /\ Len(fti_peak_indices) = 4 /\ Len(fti_valley_indices) = 3
    /\ Len(fti_outcome.value) = 2

\* a and b are neighbours in list s
ConsecutiveIn(s, a, b) == \E k \in 1..(Len(s) - 1) : s[k] = a /\ s[k + 1] = b

\* the pair each two-in-a-row list of the tests is expected to name
ExpectedPair(many) ==
    IF many = <<0, 1, 4, 8, 12>> THEN <<0, 1>>
    ELSE IF many = <<0, 5, 7, 8, 12>> THEN <<7, 8>>
    ELSE <<11, 12>>

\* C2: the pair (a, b) carried by TwoPeaksInARowError is two consecutive peaks
\* with no valley between them, the pair carried by TwoValleysInARowError two
\* consecutive valleys with no peak between them; the tested lists name the
\* tested pairs, wherever the pair sits and whichever kind comes first.
C2_ErrorNamesAdjacentPair ==
    (FtiWellFormedInput /\ FtiDone) =>
        /\ fti_outcome.kind = "TwoPeaksInARowError" =>
              /\ Len(fti_outcome.pair) = 2
              /\ ConsecutiveIn(fti_peak_indices, fti_outcome.pair[1], fti_outcome.pair[2])
              /\ ~\E v \in FtiValleys : fti_outcome.pair[1] < v /\ v < fti_outcome.pair[2]
        /\ fti_outcome.kind = "TwoValleysInARowError" =>
              /\ Len(fti_outcome.pair) = 2
              /\ ConsecutiveIn(fti_valley_indices, fti_outcome.pair[1], fti_outcome.pair[2])
              /\ ~\E p \in FtiPeaks : fti_outcome.pair[1] < p /\ p < fti_outcome.pair[2]
        /\ (fti_peak_indices \in TwoInARowCases
                /\ fti_valley_indices \in {<<2, 6, 10>>, <<-2, 2, 6, 10>>}) =>
              /\ fti_outcome.kind = "TwoPeaksInARowError"
              /\ fti_outcome.pair = ExpectedPair(fti_peak_indices)
        /\ (fti_valley_indices \in TwoInARowCases
                /\ fti_peak_indices \in {<<2, 6, 10>>, <<-2, 2, 6, 10>>}) =>
              /\ fti_outcome.kind = "TwoValleysInARowError"
              /\ fti_outcome.pair = ExpectedPair(fti_valley_indices)

C2_Witness ==
    /\ FtiDone
    /\ fti_peak_indices = <<0, 1, 4, 8, 12>> /\ fti_valley_indices = <<2, 6, 10>>
    /\ fti_outcome.kind = "TwoPeaksInARowError" /\ fti_outcome.pair = <<0, 1>>

\* the peaks with a valley before them, a peak after them and a valley after them
PeaksWithContext ==
    SelectSeq(fti_peak_indices,
              LAMBDA p : /\ \E v \in FtiValleys : v < p
                         /\ \E q \in FtiPeaks : q > p
                         /\ \E v \in FtiValleys : v > p)

\* every peak but the last, and but the first when a peak comes first
PeaksButEnds ==
    LET n == Len(fti_peak_indices)
        first == IF fti_peak_indices[1] < fti_valley_indices[1] THEN 2 ELSE 1
    IN  SubSeq(fti_peak_indices, first, n - 1)

\* C3: on success the keys of the twitch map are, in increasing order, the
\* peaks that have a preceding valley, a following peak and a following valley:
\* all peaks but the last, and but the first when the first peak precedes the
\* first valley.
C3_KeysArePeaksWithContext ==
    (FtiWellFormedInput /\ FtiReturned) =>
        /\ DictKeys(fti_outcome.value) = PeaksWithContext
        /\ DictKeys(fti_outcome.value) = PeaksButEnds
        /\ StrictlyIncreasing(DictKeys(fti_outcome.value))

C3_Witness ==
    /\ FtiWellFormedInput /\ FtiReturned
    /\ fti_peak_indices[1] < fti_valley_indices[1]
    /\ Len(fti_peak_indices) = 4
    /\ Len(fti_outcome.value) = 2

\* C4: each emitted twitch of peak p holds the latest valley before p, the
\* earliest valley after p and the earliest peak after p, with
\* prior valley < p < subsequent valley < subsequent peak; its prior peak is
\* the latest peak before p, lies before the prior valley, and is None exactly
\* when p is the first peak.
C4_TwitchNeighbours ==
    (FtiWellFormedInput /\ FtiReturned) =>
        \A k \in 1..Len(fti_outcome.value) :
            LET p == fti_outcome.value[k].key
                t == fti_outcome.value[k].value
            IN  /\ t.prior_valley = Some(SetMax({v \in FtiValleys : v < p}))
                /\ t.subsequent_valley = Some(SetMin({v \in FtiValleys : v > p}))
                /\ t.subsequent_peak = Some(SetMin({q \in FtiPeaks : q > p}))
                /\ t.prior_valley[1] < p
                /\ p < t.subsequent_valley[1]
                /\ t.subsequent_valley[1] < t.subsequent_peak[1]
                /\ (t.prior_peak = None) <=> (p = fti_peak_indices[1])
                /\ t.prior_peak # None =>
                      /\ t.prior_peak = Some(SetMax({q \in FtiPeaks : q < p}))
                      /\ t.prior_peak[1] < t.prior_valley[1]

C4_Witness ==
    /\ FtiWellFormedInput /\ FtiReturned
    /\ Len(fti_outcome.value) >= 2
    /\ fti_outcome.value[1].value.prior_peak = None
    /\ fti_outcome.value[2].value.prior_peak # None

\* C5: fewer than 3 peaks, or at least 3 peaks and fewer than 3 valleys, always
\* raises TooFewPeaksDetectedError carrying the minimum and the number found,
\* whatever the order of the indices: never a two-in-a-row error, never a map.
C5_TooFewRaisedFirst ==
    FtiDone =>
        /\ Len(fti_peak_indices) < 3 =>
              fti_outcome = Raised("TooFewPeaksDetectedError", <<>>,
                                   TooFewMessage("peaks", 3, Len(fti_peak_indices)))
        /\ (Len(fti_peak_indices) >= 3 /\ Len(fti_valley_indices) < 3) =>
              fti_outcome = Raised("TooFewPeaksDetectedError", <<>>,
                                   TooFewMessage("valleys", 3, Len(fti_valley_indices)))

C5_Witness ==
    /\ FtiDone
    /\ fti_peak_indices = <<0, 1, 2>> /\ fti_valley_indices = <<4, 5>>
    /\ fti_outcome.kind = "TooFewPeaksDetectedError"
    /\ fti_outcome.message.found = 2

----------------------------------------------------------------------------
(* Properties of peak_detector *)

PdDone == pd_pc = "done"
PdTimes == pd_signal[1]

\* the waveform with its amplitude row negated
Negated(signal) == <<signal[1], Scale(signal[2], -1)>>

\* the valleys the repair loop leaves of those found
PdRepaired == RepairValleys(pd_signal[2], pd_found.valley_indices,
                            pd_found.left_ips, pd_found.right_ips, 1).valley_indices

\* C6: peak_detector gives the same peaks and the same valleys for a waveform
\* read with one polarity and its negation read with the other (same time
\* row, window and factors), also when the repair loop deletes a valley.
C6_NegationSymmetry ==
    PdDone =>
        pd_outcome.value = peak_detector(Negated(pd_signal), ~pd_twitches_point_up,
                                         pd_start_time, pd_end_time,
                                         pd_factors.prominence, pd_factors.width)

C6_Witness ==
    /\ PdDone /\ pd_twitches_point_up
    /\ pd_start_time = 0 /\ pd_end_time = Inf
    /\ Len(pd_found.valley_indices) = 2
    /\ Len(pd_outcome.value[2]) = 1
    /\ Len(pd_outcome.value[1]) = 1

PdInRange(t) == At(PdTimes, 0) <= t /\ t <= At(PdTimes, -1)

\* every returned index is of a sample timed within [start_time, end_time]
PdResultInsideWindow ==
    \A k \in 1..2 : \A idx \in SeqToSet(pd_outcome.value[k]) :
        pd_start_time <= At(PdTimes, idx) /\ At(PdTimes, idx) <= pd_end_time

\* C7: for start_time <= end_time within the recording's time range, start_time
\* = end_time included, every returned peak and valley index is of a sample
\* timed within [start_time, end_time].
C7_WindowContainment ==
    (PdDone /\ pd_start_time <= pd_end_time /\ PdInRange(pd_start_time) /\ PdInRange(pd_end_time))
    => PdResultInsideWindow

\* what does hold: the same for start_time < end_time
C7_ProperWindowContainment ==
    (PdDone /\ pd_start_time < pd_end_time /\ PdInRange(pd_start_time) /\ PdInRange(pd_end_time))
    => PdResultInsideWindow

\* s restricted to the indices timed within [start_time, end_time]
PdRestricted(s) ==
    SelectSeq(s, LAMBDA idx : pd_start_time <= At(PdTimes, idx) /\ At(PdTimes, idx) <= pd_end_time)

PdUnwindowed == peak_detector(pd_signal, pd_twitches_point_up, 0, Inf,
                              pd_factors.prominence, pd_factors.width)

----------------------------------------------------------------------------
(* Properties of write_xlsx *)

XlProcessed == NonEmptyWells(xl_wells)
XlHasWell == XlProcessed # <<>>
XlMarkerOf(kind) ==
    IF kind = "TooFewPeaksDetectedError" THEN "Not Enough Twitches Detected"
    ELSE IF kind = "TwoPeaksInARowError" THEN "Error: Two Contractions in a Row Detected"
    ELSE "Error: Two Relaxations in a Row Detected"

\* the peaks and valleys of the k-th well: detected, or the user's in the window
XlOwnPeaksAndValleys(k) ==
    PeaksAndValleys(XlProcessed[k], xl_peaks_valleys, XlWindow)

\* the k-th well_info is what its well's own data give
XlWellInfoIsOwn(k) ==
    LET well == XlProcessed[k]
        detection == find_twitch_indices(XlOwnPeaksAndValleys(k))
        well_info == xl_recording_plotting_info[k]
    IN  /\ well_info.well_index = well.well_index
        /\ detection.kind \in PeakDetectionErrors =>
               /\ well_info.error_msg = Some(XlMarkerOf(detection.kind))
               /\ well_info.metrics = EmptyMetrics
        /\ detection.kind = "return" =>
               /\ well_info.error_msg = None
               /\ well_info.metrics = [of_well |-> Some(well.well_index),
                                       twitch_indices |-> DictKeys(detection.value)]

\* the "n (twitches)" row of the workbook shows the marker or the well's count
XlRowIsOwn(k) ==
    LET detection == find_twitch_indices(XlOwnPeaksAndValleys(k))
        cell == xl_output_file[1].num_twitches_row[k]
    IN  IF detection.kind \in PeakDetectionErrors
        THEN cell = [text |-> XlMarkerOf(detection.kind)]
        ELSE cell = [number |-> Len(DictKeys(detection.value))]

\* C9: a well whose detection raises TooFewPeaksDetectedError,
\* TwoPeaksInARowError or TwoValleysInARowError does not abort write_xlsx: the
\* well is recorded with its marker and the empty placeholder metrics, never
\* with metrics of a well processed before, and every other well is processed
\* and has metrics of its own data.
C9_FailedWellsAreMarked ==
    /\ xl_outcome.kind \notin PeakDetectionErrors
    /\ Len(xl_recording_plotting_info) <= Len(XlProcessed)
    /\ \A k \in 1..Len(xl_recording_plotting_info) : XlWellInfoIsOwn(k)
    /\ xl_pc \in {"write", "done"} => Len(xl_recording_plotting_info) = Len(XlProcessed)
    /\ xl_pc = "done" =>
           /\ Len(xl_output_file[1].num_twitches_row) = Len(XlProcessed)
           /\ \A k \in 1..Len(XlProcessed) : XlRowIsOwn(k)

\* a run that is done, where a well with twitches came before a well with too
\* few extrema
C9_Witness ==
    /\ xl_pc = "done"
    /\ Len(xl_recording_plotting_info) = 2
    /\ xl_recording_plotting_info[1].error_msg = None
    /\ xl_recording_plotting_info[1].metrics.twitch_indices # <<>>
    /\ xl_recording_plotting_info[2].error_msg = Some("Not Enough Twitches Detected")
    /\ xl_recording_plotting_info[2].metrics = EmptyMetrics

XlShortestFinalTime ==
    SetMin({XlProcessed[k].final_time : k \in 1..Len(XlProcessed)})

XlInvalidWindow ==
    \/ xl_start_time < 0
    \/ xl_end_time <= xl_start_time
    \/ XlHasWell /\ xl_start_time >= XlShortestFinalTime

XlNothingComputed ==
    /\ xl_calls = NoCalls
    /\ xl_recording_plotting_info = <<>>
    /\ xl_output_file = None

XlDescriptiveMessages == {"Invalid stim_waveform_format",
                          "Window start time cannot be negative",
                          "Window start time greater than the max timepoint of this recording",
                          "Window end time must be greater than window start time"}

XlRaisedValueError ==
    /\ xl_pc = "raised"
    /\ xl_outcome.kind = "ValueError"
    /\ xl_outcome.message \in XlDescriptiveMessages

\* C10: write_xlsx called with a negative start_time, with end_time <=
\* start_time, or with start_time at or beyond the final timepoint of the
\* shortest well raises ValueError with a descriptive message, before peak
\* detection or metric computation is run for any well and before a file is
\* written.
C10_InvalidWindowRaisesValueError ==
    XlInvalidWindow =>
        /\ XlNothingComputed
        /\ xl_pc # "call" => XlRaisedValueError

\* what holds of the code: with an invalid window nothing is computed or
\* written; the call ends in the ValueError when the recording has a well, and
\* in the StopIteration of line 235 when it has none
C10_InvalidWindowStopsBeforeWork ==
    XlInvalidWindow =>
        /\ XlNothingComputed
        /\ xl_pc # "call" =>
               IF XlHasWell THEN XlRaisedValueError
               ELSE xl_pc = "raised" /\ xl_outcome.kind = "StopIteration"

\* an invalid window on a recording with wells, rejected
C10_Witness ==
    /\ XlHasWell
    /\ xl_start_time >= 0
    /\ xl_end_time <= xl_start_time
    /\ XlRaisedValueError
    /\ xl_outcome.message = "Window end time must be greater than window start time"

----------------------------------------------------------------------------
(* Properties of peak_detector's argument handling *)

PdInvalidWindow == pd_end_time <= pd_start_time \/ pd_start_time < 0

\* C11: peak_detector called with end_time <= start_time, or with a negative
\* start_time, fails with a descriptive error before the extremum search is
\* run, and never replaces the invalid bound by another value.
C11_InvalidWindowRaises ==
    (PdDone /\ PdInvalidWindow) =>
        /\ pd_outcome.kind # "return"
        /\ pd_found = NoExtrema

\* what the code does instead: it returns, filtering with the window of lines
\* 53-60, where a negative start_time became 0 and an end_time <= start_time
\* became np.inf
C11_InvalidWindowReplaced ==
    (PdDone /\ PdInvalidWindow) =>
        /\ pd_outcome.kind = "return"
        /\ pd_start_time < 0 =>
               EffectiveWindow(PdTimes, pd_start_time, pd_end_time).start_time = 0
        /\ pd_end_time <= pd_start_time =>
               EffectiveWindow(PdTimes, pd_start_time, pd_end_time).end_time = Inf

\* the lists peak_detector has after the search, the repair and the window filter
PdFinalLists == peak_detector(pd_signal, pd_twitches_point_up, pd_start_time, pd_end_time,
                              pd_factors.prominence, pd_factors.width)

PdTooFew == Len(PdFinalLists[1]) < MIN_NUMBER_PEAKS \/ Len(PdFinalLists[2]) < MIN_NUMBER_VALLEYS

\* C12: when fewer than MIN_NUMBER_PEAKS peaks or fewer than MIN_NUMBER_VALLEYS
\* valleys are left after detection, repair and window filtering, peak_detector
\* fails with a too-few error carrying the count found instead of returning
\* the lists.
C12_TooFewRaisedByDetector ==
    (PdDone /\ PdTooFew) =>
        /\ pd_outcome.kind = "TooFewPeaksDetectedError"
        /\ pd_outcome.message.minimum = 3
        /\ pd_outcome.message.found \in {Len(PdFinalLists[1]), Len(PdFinalLists[2])}

\* what the code does instead: peak_detector returns the short lists, and the
\* error is raised when they are given to find_twitch_indices
C12_TooFewRaisedByIndexer ==
    (PdDone /\ PdTooFew) =>
        /\ pd_outcome = Returned(PdFinalLists)
        /\ find_twitch_indices(pd_outcome.value).kind = "TooFewPeaksDetectedError"

----------------------------------------------------------------------------
(* Properties of noise_based_peak_finding *)

NbDone == nb_pc = "done"
NbReturned == NbDone /\ nb_outcome.kind = "return"

\* the tentative peaks of lines 78-81
NbInitialPeaks == InitialPeaks(nb_waveform, INITIAL_PEAK_STARTING_PROM)

\* the peaks of the second search, lines 124-130
NbRefoundPeaks ==
    RefindPeaks(nb_waveform,
                NoiseProminence(nb_waveform, nb_noise_amplitude,
                                nb_params.noise_prominence_factor,
                                nb_params.relative_prominence_factor),
                <<Rat(nb_params.width_factors[1] * nb_sample_freq, 100),
                  Rat(nb_params.width_factors[2] * nb_sample_freq, 100)>>,
                nb_params.height_factor,
                PeakDistance(nb_sample_freq, nb_params.max_frequency))

NbSearchWindow == NumSamples(nb_params.valley_search_duration, nb_sample_freq)

\* C13: noise_based_peak_finding never returns fewer than MIN_NUMBER_PEAKS
\* peaks; when fewer are left after the second search or after the removal of
\* the leading peaks, it raises an error.
C13_NeverFewerThanMinimumPeaks ==
    NbReturned => Len(nb_outcome.value[1]) >= MIN_NUMBER_PEAKS

\* what does hold: the second search left at least MIN_NUMBER_PEAKS peaks,
\* and the peaks returned are those of them not nearer to the start than the
\* search window, of which there is at least one
C13_ReturnsPeaksPastSearchWindow ==
    NbReturned =>
        /\ Len(NbRefoundPeaks) >= MIN_NUMBER_PEAKS
        /\ nb_outcome.value[1] = SelectSeq(NbRefoundPeaks, LAMBDA pk : pk >= NbSearchWindow)
        /\ Len(nb_outcome.value[1]) >= 1

NbNoiseSegment == NumSamples(DEFAULT_NOISE_SEGMENT_DURATION, nb_sample_freq)

\* no tentative peak, or each one with a noise segment that runs past the end
NbNoUsablePeaks ==
    \A pk \in SeqToSet(NbInitialPeaks) : pk + NbNoiseSegment > Len(nb_waveform)

\* C14: when the first search leaves no usable peak (none found down to the
\* lowest prominence, or every one removed for its noise segment running past
\* the end of the waveform), noise_based_peak_finding raises
\* TooFewPeaksDetectedError and no other exception.
C14_NoUsablePeaksRaisesTooFew ==
    (NbDone /\ NbNoUsablePeaks) => nb_outcome.kind = "TooFewPeaksDetectedError"

\* what does hold: TooFewPeaksDetectedError when fewer than MIN_NUMBER_PEAKS
\* tentative peaks were found, and the IndexError of line 91 otherwise
C14_NoUsablePeaksRaises ==
    (NbDone /\ NbNoUsablePeaks) =>
        IF Len(NbInitialPeaks) < MIN_NUMBER_PEAKS
        THEN nb_outcome = TooFewPeaks(NbInitialPeaks)
        ELSE nb_outcome.kind = "IndexError"


\* the user's peaks and valleys of the k-th well that lie in the analysis window
XlUserIndicesInWindow(k) ==
    LET user == xl_peaks_valleys[1][XlProcessed[k].well_index]
        InWindow(idx) == XlWindow[1] <= idx /\ idx <= XlWindow[2]
    IN  <<SelectSeq(user[1], InWindow), SelectSeq(user[2], InWindow)>>

\* the k-th well_info holds the user's indices and what find_twitch_indices
\* makes of them
XlUserIndicesUsed(k) ==
    LET well_info == xl_recording_plotting_info[k]
        checked == find_twitch_indices(XlUserIndicesInWindow(k))
    IN  /\ well_info.peaks_and_valleys = XlUserIndicesInWindow(k)
        /\ checked.kind \in PeakDetectionErrors =>
               /\ well_info.error_msg = Some(XlMarkerOf(checked.kind))
               /\ well_info.metrics = EmptyMetrics
        /\ checked.kind = "return" =>
               /\ well_info.error_msg = None
               /\ well_info.metrics.twitch_indices = DictKeys(checked.value)

PdWindowPositions ==
    {idx \in 0..(SignalLength - 1) :
         pd_start_time <= At(PdTimes, idx) /\ At(PdTimes, idx) <= pd_end_time}

\* the signal sliced to the window, both rows
PdWindowSlice ==
    LET first == SetMin(PdWindowPositions)
        count == Cardinality(PdWindowPositions)
    IN  <<[k \in 1..count |-> At(PdTimes, first + k - 1)],
          [k \in 1..count |-> At(pd_signal[2], first + k - 1)]>>

\* peaks and valleys of a call without a window on the slice, shifted by the
\* position of the window's first sample
PdSliceSearchShifted ==
    LET first == SetMin(PdWindowPositions)
        found == peak_detector(PdWindowSlice, pd_twitches_point_up, 0, Inf,
                               pd_factors.prominence, pd_factors.width)
    IN  <<[k \in 1..Len(found[1]) |-> found[1][k] + first],
          [k \in 1..Len(found[2]) |-> found[2][k] + first]>>

\* C16: when peak_detector is given a window, the search runs only on the
\* samples positioned within the window (bounds inclusive), once on the slice
\* for peaks and once on its negation for valleys, and the indices found are
\* shifted by the window's start offset to refer to the full waveform.
C16_SearchRunsOnWindowSlice ==
    (/\ PdDone
     /\ 0 <= pd_start_time /\ pd_start_time < pd_end_time
     /\ Cardinality(PdWindowPositions) >= 2)
    => pd_outcome.value = PdSliceSearchShifted


----------------------------------------------------------------------------
(* Properties of peak_detector's factor arguments *)

FaDone == fa_pc = "done"

\* the factor an argument stands for: item i of a 2-tuple, the single value otherwise
FaFactor(obj, i) == IF Len(obj.items) = 2 THEN At(obj.items, i) ELSE At(obj.items, 0)

\* the keywords the claim gives the call for peaks (i = 0) or valleys (i = 1)
FaExpectedKeywords(i) ==
    [width |-> Rat(min_required_samples_between_twitches(fa_signal[1]),
                   FaFactor(fa_width_factors, i)),
     prominence |-> Rat(MaxProminence(fa_signal[2]), FaFactor(fa_prominence_factors, i))]

\* C17: peak_detector accepts prominence_factors and width_factors given as a
\* 2-tuple, a 1-tuple or a single number; a single value holds for peaks and
\* valleys, so the first search gets prominence = max_prominence / peak factor
\* and width = min_required_samples_between_twitches / peak width factor, and
\* the second search the same expressions with the valley factors.
C17_FactorsOfAnyShape ==
    FaDone =>
        /\ fa_outcome.kind = "return"
        /\ fa_find_peaks_calls = <<FaExpectedKeywords(0), FaExpectedKeywords(1)>>

\* with both arguments 2-tuples the two searches get the keywords of the claim
C17_TwoTupleFactors ==
    (FaDone /\ fa_prominence_factors.type = "tuple" /\ Len(fa_prominence_factors.items) = 2
            /\ fa_width_factors.type = "tuple" /\ Len(fa_width_factors.items) = 2)
    => /\ fa_outcome.kind = "return"
       /\ fa_find_peaks_calls = <<FaExpectedKeywords(0), FaExpectedKeywords(1)>>

\* a single number raises TypeError before any search, a 1-tuple IndexError
\* after the search for peaks
C17_ShortFactorsRaise ==
    FaDone =>
        /\ (fa_width_factors.type = "int"
            \/ (fa_prominence_factors.type = "int" /\ fa_width_factors.type = "tuple"))
           => fa_outcome.kind = "TypeError" /\ fa_find_peaks_calls = <<>>
        /\ (fa_width_factors = Tuple(<<1>>) /\ fa_prominence_factors.type = "tuple")
           => fa_outcome.kind = "IndexError" /\ fa_find_peaks_calls = <<FaExpectedKeywords(0)>>


----------------------------------------------------------------------------
(* Properties of the valley repair loop *)

RpDone == rp_pc = "done"

\* valleys j and k were found with identical left and right intersection points
RpSameShape(j, k) ==
    /\ RatEq(rp_left_ips[j], rp_left_ips[k])
    /\ RatEq(rp_right_ips[j], rp_right_ips[k])

\* valleys j and k lie in one run of consecutive valleys of identical shape
RpSameRun(j, k) ==
    \A m \in (Min2(j, k) + 1)..Max2(j, k) : RpSameShape(m - 1, m)

RpAmplitude(k) == At(rp_magnetic_signal, rp_valley_indices[k])

\* valley k is the one of its run with the largest raw amplitude, the earliest
\* of these
RpSurvives(k) ==
    \A j \in 1..Len(rp_valley_indices) :
        (j # k /\ RpSameRun(j, k))
        => \/ RpAmplitude(k) > RpAmplitude(j)
           \/ RpAmplitude(k) = RpAmplitude(j) /\ k < j

RpSurvivors ==
    SelectSeq([k \in 1..Len(rp_valley_indices) |-> k], RpSurvives)

\* C18: the repair loop leaves of every maximal run of consecutive valleys
\* with identical left and right intersection points exactly one valley, the
\* one of largest raw amplitude and the earliest of these; the valleys outside
\* such runs stay, in their order; the loop ends, and afterwards no two
\* adjacent valleys have identical left and right intersection points.
C18_RunsCollapseToLargest ==
    RpDone =>
        /\ rp_repaired.valley_indices
               = [m \in 1..Len(RpSurvivors) |-> rp_valley_indices[RpSurvivors[m]]]
        /\ rp_repaired.left_ips = [m \in 1..Len(RpSurvivors) |-> rp_left_ips[RpSurvivors[m]]]
        /\ rp_repaired.right_ips = [m \in 1..Len(RpSurvivors) |-> rp_right_ips[RpSurvivors[m]]]
        /\ \A m \in 2..Len(rp_repaired.valley_indices) :
               ~(/\ RatEq(rp_repaired.left_ips[m], rp_repaired.left_ips[m - 1])
                 /\ RatEq(rp_repaired.right_ips[m], rp_repaired.right_ips[m - 1]))

\* a valley alone, then a run of three whose second valley has the largest
\* amplitude: the first and the third valley found are left
C18_Witness ==
    /\ RpDone
    /\ Len(rp_valley_indices) = 4
    /\ ~RpSameShape(1, 2) /\ RpSameShape(2, 3) /\ RpSameShape(3, 4)
    /\ RpAmplitude(2) < RpAmplitude(3) /\ RpAmplitude(4) < RpAmplitude(3)
    /\ rp_repaired.valley_indices = <<rp_valley_indices[1], rp_valley_indices[3]>>


\* in what signal.find_peaks gives peak_detector, two adjacent valleys with
\* identical intersection points have one raw amplitude
C18_DetectedRunsAreTied ==
    PdDone =>
        \A i \in 1..(Len(pd_found.valley_indices) - 1) :
            (/\ RatEq(At(pd_found.left_ips, i), At(pd_found.left_ips, i - 1))
             /\ RatEq(At(pd_found.right_ips, i), At(pd_found.right_ips, i - 1)))
            => At(pd_signal[2], At(pd_found.valley_indices, i))
                   = At(pd_signal[2], At(pd_found.valley_indices, i - 1))


----------------------------------------------------------------------------
(* Properties of the valley search of noise_based_peak_finding *)

VsDone == vs_pc = "done"

\* the qualifying upslopes of the segment
VsUpslopes == upslope_indices(vs_segment, vs_upslope_num_samples, vs_allowance)

\* the starts of the qualifying upslopes of the longest length
VsLongestStarts ==
    {At(VsUpslopes[k], 0) : k \in {j \in 1..Len(VsUpslopes) :
                                      Len(VsUpslopes[j]) = LongestUpslope(VsUpslopes)}}

\* the first position of the least sample of the segment
VsMinimumPosition ==
    SetMin({j \in 0..(Len(vs_segment) - 1) :
                \A i \in 0..(Len(vs_segment) - 1) : At(vs_segment, j) <= At(vs_segment, i)})

\* C19: the valley chosen for a peak is the start of the longest qualifying
\* upslope of the peak's search window; of several qualifying upslopes of the
\* longest length, the start of the one that starts latest; and without a
\* qualifying upslope, the position of the least sample of the window.
C19_LatestOfLongestUpslopes ==
    VsDone =>
        vs_valley_index = Some(IF VsUpslopes = <<>> THEN VsMinimumPosition
                               ELSE SetMax(VsLongestStarts))

\* of several qualifying upslopes of the longest length the code takes the
\* one that starts earliest
C19_EarliestOfLongestUpslopes ==
    VsDone =>
        vs_valley_index = Some(IF VsUpslopes = <<>> THEN VsMinimumPosition
                               ELSE SetMin(VsLongestStarts))


----------------------------------------------------------------------------
(* The pair find_twitch_indices names of several *)

\* the positions k of the merged sequence where entries k and k + 1 are of one kind
FtiSameKindPositions ==
    {k \in 1..(Len(FtiMerged) - 1) : (FtiMerged[k] \in FtiPeaks) = (FtiMerged[k + 1] \in FtiPeaks)}

FtiLeftmostPair ==
    <<FtiMerged[SetMin(FtiSameKindPositions)], FtiMerged[SetMin(FtiSameKindPositions) + 1]>>

\* C20: for strictly increasing, disjoint lists of at least 3 peaks and 3
\* valleys whose merged, index-sorted sequence has several adjacent pairs of
\* one kind, the error raised names the leftmost such pair and is
\* TwoPeaksInARowError or TwoValleysInARowError after the kind of that pair.
C20_LeftmostPairIsNamed ==
    (/\ FtiWellFormedInput /\ FtiDone
     /\ Len(fti_peak_indices) >= 3 /\ Len(fti_valley_indices) >= 3
     /\ FtiSameKindPositions # {})
    => /\ fti_outcome.pair = FtiLeftmostPair
       /\ fti_outcome.kind = IF FtiLeftmostPair[1] \in FtiPeaks
                             THEN "TwoPeaksInARowError" ELSE "TwoValleysInARowError"

\* two valleys in a row come first, two peaks in a row later: the valleys are named
C20_Witness ==
    /\ FtiWellFormedInput /\ FtiDone
    /\ Len(fti_peak_indices) >= 3 /\ Len(fti_valley_indices) >= 3
    /\ Cardinality(FtiSameKindPositions) >= 2
    /\ FtiLeftmostPair[1] \in FtiValleys
    /\ \E k \in FtiSameKindPositions : FtiMerged[k] \in FtiPeaks
    /\ fti_outcome.kind = "TwoValleysInARowError"
    /\ fti_outcome.pair = FtiLeftmostPair


----------------------------------------------------------------------------
(* The outcomes of find_twitch_indices on any two arrays *)

\* the scan and the checks after it raised nothing
FtiScanPassed ==
    /\ FtiDone
    /\ fti_outcome.kind \notin {"TooFewPeaksDetectedError", "TwoPeaksInARowError",
                                "TwoValleysInARowError"}

FtiStartsWithPeak == At(fti_peak_indices, 0) < At(fti_valley_indices, 0)

\* C21: for any two integer arrays find_twitch_indices returns a twitch map or
\* raises TooFewPeaksDetectedError, TwoPeaksInARowError or
\* TwoValleysInARowError, and no array access is out of bounds: after a scan
\* that passes, the valleys are as many as the peaks or one fewer when a peak
\* comes first, as many or one more when a valley comes first.
C21_OnlyFourOutcomes ==
    /\ FtiDone =>
           fti_outcome.kind \in {"return", "TooFewPeaksDetectedError",
                                 "TwoPeaksInARowError", "TwoValleysInARowError"}
    /\ FtiScanPassed =>
           Len(fti_valley_indices) - Len(fti_peak_indices)
               \in (IF FtiStartsWithPeak THEN {0, -1} ELSE {0, 1})

\* a map is returned for arrays that are not in increasing order and share values
C21_Witness ==
    /\ FtiDone /\ fti_outcome.kind = "return"
    /\ ~FtiWellFormedInput
    /\ ~StrictlyIncreasing(fti_peak_indices)
    /\ Len(fti_peak_indices) = 4 /\ Len(fti_valley_indices) = 3
    /\ Len(fti_outcome.value) >= 1


----------------------------------------------------------------------------
(* The peaks and valleys noise_based_peak_finding returns *)

NbPeaksReturned == nb_outcome.value[1]
NbValleysReturned == nb_outcome.value[2]

\* C22: whenever noise_based_peak_finding returns (peaks, valleys), the two
\* are of one length, valleys[k] lies strictly before peaks[k] and not before
\* peaks[k-1] (not before sample 0 for k = 0), and with at least 3 peaks
\* find_twitch_indices accepts the result without a two-in-a-row error.
C22_ValleyBeforeEachPeak ==
    NbReturned =>
        /\ Len(NbValleysReturned) = Len(NbPeaksReturned)
        /\ \A k \in 1..Len(NbPeaksReturned) :
               /\ NbValleysReturned[k] < NbPeaksReturned[k]
               /\ NbValleysReturned[k] >= (IF k = 1 THEN 0 ELSE NbPeaksReturned[k - 1])
        /\ Len(NbPeaksReturned) >= MIN_NUMBER_PEAKS =>
               find_twitch_indices(nb_outcome.value).kind = "return"

\* three peaks are returned with a valley before each, and find_twitch_indices
\* makes a twitch of them
C22_Witness ==
    /\ NbReturned
    /\ Len(NbPeaksReturned) >= MIN_NUMBER_PEAKS
    /\ Len(NbValleysReturned) = Len(NbPeaksReturned)
    /\ find_twitch_indices(nb_outcome.value).kind = "return"
    /\ Len(find_twitch_indices(nb_outcome.value).value) >= 1


----------------------------------------------------------------------------
(* Properties of the window filter of peak_detector *)

WfDone == wf_pc = "done"

\* peaks and valleys, merged and sorted by index, are of alternating kinds
Alternates(peak_indices, valley_indices) ==
    LET merged == SortedSeq(SeqToSet(peak_indices) \cup SeqToSet(valley_indices))
    IN  \A k \in 1..(Len(merged) - 1) :
            (merged[k] \in SeqToSet(peak_indices)) # (merged[k + 1] \in SeqToSet(peak_indices))

\* C23: if the peaks and valleys found on the full trace alternate when merged
\* by index, then for every start_time and end_time the windowed peaks and
\* valleys alternate too, and find_twitch_indices on them can fail only with
\* TooFewPeaksDetectedError.
C23_WindowKeepsAlternation ==
    (WfDone /\ Alternates(wf_peak_indices, wf_valley_indices))
    => /\ Alternates(wf_windowed[1], wf_windowed[2])
       /\ find_twitch_indices(wf_windowed).kind \in {"return", "TooFewPeaksDetectedError"}

\* the window cuts the first peak off an alternating trace, and the rest gives twitches
C23_Witness ==
    /\ WfDone /\ Alternates(wf_peak_indices, wf_valley_indices)
    /\ wf_start_time > 0
    /\ Len(wf_windowed[1]) < Len(wf_peak_indices)
    /\ Len(wf_windowed[1]) >= MIN_NUMBER_PEAKS
    /\ find_twitch_indices(wf_windowed).kind = "return"


----------------------------------------------------------------------------
(* Properties of the baseline of _process_plate_data *)

BlDone == bl_pc = "done"

\* C24: with use_mean_of_baseline=False, for a recording of N timepoints and a
\* baseline of M >= 1 timepoints, the baseline given to the estimator has N
\* timepoints and its timepoint t is timepoint t mod M of the baseline, for
\* every well, sensor and axis; with use_mean_of_baseline=True it has one
\* timepoint per well, sensor and axis.
C24_BaselineTiledOrAveraged ==
    BlDone =>
        \A c \in Channels :
            IF bl_use_mean_of_baseline
            THEN Len(bl_passed[c]) = 1
            ELSE /\ Len(bl_passed[c]) = bl_num_samples_in_recording
                 /\ \A t \in 0..(bl_num_samples_in_recording - 1) :
                        At(bl_passed[c], t)
                            = At(bl_baseline_data_mt[c], t % Len(bl_baseline_data_mt[c]))

\* a baseline of 3 timepoints, not all alike, extended to a recording of 4
C24_Witness ==
    /\ BlDone /\ ~bl_use_mean_of_baseline
    /\ bl_num_samples_in_recording = 4
    /\ Len(bl_baseline_data_mt[1]) = 3
    /\ bl_baseline_data_mt[1] = <<0, 1, 1>>
    /\ bl_passed[1] = <<0, 1, 1, 0>>


----------------------------------------------------------------------------
(* Properties of the processing stages and their inputs *)

\* C25: no step of _load_magnetic_data changes the stored tissue and reference
\* readings, and no step of _process_plate_data after the estimator returned
\* changes the X array the estimator returned, for every file-format version.
C25_NoStageMutatesItsInput ==
    [][/\ st_readings' = st_readings
       /\ st_pc = "wells" => st_X' = st_X]_vars

\* the part of C25 about _load_magnetic_data: the stored readings never change
C25_StoredReadingsUnchanged == [][st_readings' = st_readings]_vars

\* the X array changes only for the files of version 1.1.0 and later
C25_XUnchangedBefore_1_1_0 == [][st_pc = "wells" /\ ~FlipData(st_version) => st_X' = st_X]_vars

\* the loop over the wells has run for a file of version 1.1.0 and X is not all zero
C25_FlippedInPlace ==
    /\ st_pc = "done" /\ st_well_idx = NumPlateWells
    /\ FlipData(st_version)
    /\ \E t \in DOMAIN st_X : \E w \in DOMAIN st_X[t] : st_X[t][w] # 0


----------------------------------------------------------------------------
(* Properties of the metric sheets and the charts *)

ShDone == sh_pc = "done"

\* the metrics the rows of the first well of the per-twitch sheet hold
ShPerTwitchMetrics ==
    {sh_per_twitch.df[r].holds : r \in {r \in 1..sh_per_twitch.num_per_twitch_metrics : "metric_id" \in DOMAIN sh_per_twitch.df[r].holds}}

ShListsBaselineMetric(metrics, metric_id) == \E m \in metrics : m.metric_id = metric_id

\* C26: in per_twitch_df and in aggregate_metrics_df the baseline-to-peak rows
\* are there exactly if baseline_widths_to_use[0] is not among the twitch
\* widths, the peak-to-baseline rows exactly if baseline_widths_to_use[1] is
\* not among them, and the two sheets list the same set of metrics.
C26_BaselineRowsAlikeInBothSheets ==
    ShDone =>
        /\ \A metrics \in {SeqToSet(sh_aggregate), ShPerTwitchMetrics} :
              /\ ShListsBaselineMetric(metrics, "BASELINE_TO_PEAK")
                    <=> At(sh_baseline_widths_to_use, 0) \notin SeqToSet(sh_twitch_widths)
              /\ ShListsBaselineMetric(metrics, "PEAK_TO_BASELINE")
                    <=> At(sh_baseline_widths_to_use, 1) \notin SeqToSet(sh_twitch_widths)
        /\ SeqToSet(sh_aggregate) = ShPerTwitchMetrics

\* the second baseline width is a requested width and the first is not: the
\* peak-to-baseline rows are left out of both sheets
C26_Witness ==
    /\ ShDone
    /\ At(sh_baseline_widths_to_use, 0) \notin SeqToSet(sh_twitch_widths)
    /\ At(sh_baseline_widths_to_use, 1) \in SeqToSet(sh_twitch_widths)
    /\ ~ShListsBaselineMetric(SeqToSet(sh_aggregate), "PEAK_TO_BASELINE")
    /\ ShListsBaselineMetric(ShPerTwitchMetrics, "BASELINE_TO_PEAK")

\* the row of the per-twitch sheet that Excel numbers row holds, for the well, what is named
ShRowHolds(row, well_index, holds) ==
    /\ row \in 1..Len(sh_per_twitch.df)
    /\ sh_per_twitch.df[row] = SheetRow(well_index, holds)

\* C28: for every well written, whichever wells the recording has, the series
\* of the frequency-vs-time chart and of the force-frequency chart of the well
\* name the rows of the per-twitch sheet that hold that well's timepoints,
\* amplitudes and frequencies.
C28_ChartsReferToOwnWell ==
    ShDone =>
        \A k \in 1..Len(sh_charts) :
            /\ ShRowHolds(sh_charts[k].frequency_chart.categories, sh_charts[k].well_index, Text("Timepoint of Twitch Contraction"))
            /\ ShRowHolds(sh_charts[k].frequency_chart.values, sh_charts[k].well_index, Metric("TWITCH_FREQUENCY", None))
            /\ ShRowHolds(sh_charts[k].force_frequency_chart.categories, sh_charts[k].well_index, Metric("TWITCH_FREQUENCY", None))
            /\ ShRowHolds(sh_charts[k].force_frequency_chart.values, sh_charts[k].well_index, Metric("AMPLITUDE", None))

\* the charts are right when the wells present are the wells 0 .. n-1
C28_ChartsRightWhenNoWellMissing ==
    ShDone /\ (\A k \in 1..Len(sh_well_indices) : sh_well_indices[k] = k - 1) =>
        \A k \in 1..Len(sh_charts) :
            /\ ShRowHolds(sh_charts[k].frequency_chart.categories, sh_charts[k].well_index, Text("Timepoint of Twitch Contraction"))
            /\ ShRowHolds(sh_charts[k].frequency_chart.values, sh_charts[k].well_index, Metric("TWITCH_FREQUENCY", None))
            /\ ShRowHolds(sh_charts[k].force_frequency_chart.categories, sh_charts[k].well_index, Metric("TWITCH_FREQUENCY", None))
            /\ ShRowHolds(sh_charts[k].force_frequency_chart.values, sh_charts[k].well_index, Metric("AMPLITUDE", None))


----------------------------------------------------------------------------
(* Properties of the windowed timepoints of write_xlsx *)

SlDone == sl_pc = "done"

\* the interpolated timepoints within the window and within the well's recording
SlInRange ==
    {t \in SeqToSet(interpolated_timepoints_us(sl_max_final_time)) :
        Max2(sl_start_time, sl_first_time) <= t /\ t <= Min2(sl_end_time, sl_last_time)}

\* C27: the windowed timepoints of a well are the interpolated timepoints t
\* with max(start_time, first time of the well) <= t <= min(end_time, last
\* time of the well), all of them and no other.
C27_WindowHoldsAllInRange ==
    SlDone => SeqToSet(sl_windowed) = SlInRange

\* the indices truncate returns are those of the first and last timepoint in range
C27_TruncateIsInclusive ==
    SlDone /\ SlInRange # {} =>
        /\ At(interpolated_timepoints_us(sl_max_final_time),
              Max2(truncate(interpolated_timepoints_us(sl_max_final_time), sl_first_time, sl_last_time)[1],
                   truncate(interpolated_timepoints_us(sl_max_final_time), sl_start_time, sl_end_time)[1]))
                = SetMin(SlInRange)
        /\ At(interpolated_timepoints_us(sl_max_final_time),
              Min2(truncate(interpolated_timepoints_us(sl_max_final_time), sl_first_time, sl_last_time)[2],
                   truncate(interpolated_timepoints_us(sl_max_final_time), sl_start_time, sl_end_time)[2]))
                = SetMax(SlInRange)

\* the slice leaves out the last timepoint in range, and only that one
C27_WindowDropsLastInRange ==
    SlDone /\ SlInRange # {} => SeqToSet(sl_windowed) = SlInRange \ {SetMax(SlInRange)}


----------------------------------------------------------------------------
(* Properties of the iteration over a PlateRecording *)

\* the indices of the wells that have a file, in increasing order
ItNonEmptyWells == SortedSeq({k \in 0..(Len(it_wells) - 1) : At(it_wells, k) # None})

\* C29: every loop over a PlateRecording is given each non-empty well exactly
\* once, in increasing order of the well index, and then ends, also when a
\* second loop over the same object starts before the first has ended.
C29_EachLoopYieldsEveryWell ==
    \A loop \in Loops :
        /\ it_loops[loop].pc = "ended" => it_loops[loop].yielded = ItNonEmptyWells
        /\ it_loops[loop].pc = "looping" =>
              \E n \in 0..Len(ItNonEmptyWells) : it_loops[loop].yielded = SubSeq(ItNonEmptyWells, 1, n)

\* a loop during which no other loop over the object ran is given every non-empty well in order
C29_LoopAloneYieldsEveryWell ==
    \A loop \in Loops :
        it_loops[loop].alone =>
            /\ it_loops[loop].pc = "ended" => it_loops[loop].yielded = ItNonEmptyWells
            /\ it_loops[loop].pc = "looping" =>
                  \E n \in 0..Len(ItNonEmptyWells) : it_loops[loop].yielded = SubSeq(ItNonEmptyWells, 1, n)

\* a loop started while the other was running, and both have ended
C29_BothEndedAfterOverlap ==
    /\ \A loop \in Loops : it_loops[loop].pc = "ended" /\ ~it_loops[loop].alone
    /\ ItNonEmptyWells # <<>>


----------------------------------------------------------------------------
(* Properties of _find_start_index *)

FsDone == fs_pc = "done"

\* the largest index i with times[i] - times[0] <= from_start
FsLargestWithin ==
    SetMax({i \in 0..(Len(fs_old_data) - 1) : At(fs_old_data, i) - At(fs_old_data, 0) <= fs_from_start})

FsTotalDuration == At(fs_old_data, -1) - At(fs_old_data, 0)

\* C30: for non-empty strictly increasing times and from_start >= 0,
\* _find_start_index returns the largest index i with times[i] - times[0] <=
\* from_start: the last index when from_start is at least the total duration,
\* and 0 for a single time.
C30_LargestIndexWithinFromStart ==
    FsDone => fs_start_index = FsLargestWithin

\* the same for from_start below the total duration
C30_LargestIndexBelowTotalDuration ==
    FsDone /\ fs_from_start < FsTotalDuration => fs_start_index = FsLargestWithin

\* at or beyond the total duration the index before the last is returned, -1 for a single time
C30_OneShortAtTotalDuration ==
    FsDone /\ fs_from_start >= FsTotalDuration => fs_start_index = Len(fs_old_data) - 2

====
